---- MODULE Spec2Model ----
(***************************************************************************)
(* A model of parts of DIPlib 3.0:                                         *)
(*   - dip::Image headers and their shared data segments                   *)
(*     (include/diplib/library/image.h),                                   *)
(*   - the saturated arithmetic operators                                  *)
(*     (include/diplib/saturated_arithmetic.h),                            *)
(*   - dip::BinaryPropagation and dip::EdgeObjectsRemove                   *)
(*     (src/binary/binary_propagation.cpp),                                *)
(*   - dip::Interval, its rotated versions, dip::Thickening and            *)
(*     dip::Thinning (src/binary/sup_inf_generator.cpp),                   *)
(*   - dip::PixelTable (src/library/pixel_table.cpp),                      *)
(*   - dip::LookupTable (src/lookup_table/lookup_table.cpp) and its        *)
(*     binding (pydip/assorted.cpp),                                       *)
(*   - dip::PercentileFilter (src/nonlinear/percentile.cpp),               *)
(*   - the argument handling of the MATLAB bindings lee and unif           *)
(*     (dipimage/lee.cpp, dipimage/unif.cpp),                              *)
(*   - the conversion of a Python slice to a dip::Range (pydip/pydip.h),   *)
(*   - the delegates of GLFWManager (viewer/include/diplib/viewer/glfw.h), *)
(*   - the shifts of DFTLineFilter (src/transform/fourier.cpp).            *)
(* Each part has its own specification over the module's variables; the    *)
(* variables of the other parts stay at their initial values.              *)
(***************************************************************************)
EXTENDS Integers, Sequences, FiniteSets, TLC

VARIABLES
    img,      \* image name -> dip::Image header (the private fields of the class)
    heap,     \* data segment id -> the samples stored in the segment (0 when not allocated)
    last,     \* the last Image operation: [op, dst, err]
    sat,      \* the last call of a saturated operator: [op, kind, a, b, r, fault]
    bp,       \* a call of BinaryPropagation or EdgeObjectsRemove: its arguments,
              \* its position, the samples of out and the queue of edge pixels
    call      \* a call of another library function: its name fn, its position
              \* pc, its arguments and what it computed so far

imgVars == <<img, heap, last>>

\* The variables the Image operations leave alone.
notImgVars == <<sat, bp, call>>

\* The variables a call of another library function leaves alone.
notCallVars == <<img, heap, last, sat, bp>>

vars == <<img, heap, last, sat, bp, call>>

-----------------------------------------------------------------------------
(* dip::Image                                                              *)

\* The image objects of the program.
Images == {"a", "b"}

\* Largest sample content a segment can hold (contents are abstract tokens).
MaxData == 1

DataVals == 0..MaxData

\* Segment ids; 0 is the null pointer. No more segments than images are alive.
SegIds == 1..Cardinality(Images)

\* External interface pointers; 0 is nullptr.
Interfaces == {1, 2}

\* Image(): 0-D, one tensor element, DT_SFLOAT, raw.
\* colorSpace_ and pixelSize_ are left out: no operation below reads them.
DefaultImage ==
    [dataType |-> "SFLOAT", sizes |-> <<>>, strides |-> <<>>, tensor |-> 1,
     tensorStride |-> 0, protect |-> FALSE, dataBlock |-> 0, origin |-> 0,
     externalData |-> FALSE, externalInterface |-> 0]

IsForged(im) == im.origin # 0

IsProtected(im) == im.protect

SharesData(x, y) == IsForged(x) /\ IsForged(y) /\ x.dataBlock = y.dataBlock

IsIdenticalView(x, y) ==
    /\ IsForged(x) /\ IsForged(y)
    /\ x.origin = y.origin
    /\ x.dataType = y.dataType
    /\ x.sizes = y.sizes
    /\ x.tensor = y.tensor
    /\ x.strides = y.strides
    /\ x.tensorStride = y.tensorStride

\* TestSizes: every size is non-zero (the upper limit is out of the model's range).
TestSizes(d) == \A k \in 1..Len(d) : d[k] # 0

RECURSIVE Product(_, _)
Product(s, k) == IF k = 0 THEN 1 ELSE s[k] * Product(s, k - 1)

\* Normal strides: tensor elements of a pixel are contiguous, then row-major.
NormalStrides(sizes, tensor) == [k \in 1..Len(sizes) |-> tensor * Product(sizes, k - 1)]

\* Segments some image header points to.
UsedSegs(im) == {im[i].dataBlock : i \in DOMAIN im} \ {0}

\* The allocator hands out a segment nobody holds.
FreshSeg(im) == CHOOSE s \in SegIds \ UsedSegs(im) : \A t \in SegIds \ UsedSegs(im) : s <= t

\* Releasing the shared pointers: a segment no header holds is freed.
Collect(im, hp) == [s \in SegIds |-> IF s \in UsedSegs(im) THEN hp[s] ELSE 0]

Done(op, dst, err) ==
    /\ last' = [op |-> op, dst |-> dst, err |-> err]
    /\ UNCHANGED notImgVars

\* A call that throws before changing anything.
Throws(op, dst, err) == Done(op, dst, err) /\ UNCHANGED <<img, heap>>

\* A call that leaves image i as the header r.
Sets(op, i, r) ==
    /\ img' = [img EXCEPT ![i] = r]
    /\ heap' = Collect(img', heap)
    /\ Done(op, i, "")

SetSizesNoCheck(i, d) ==
    IF ~TestSizes(d) THEN Throws("SetSizes", i, "INVALID_SIZES")
    ELSE Sets("SetSizes", i, [img[i] EXCEPT !.sizes = d])

SetSizes(i, d) ==
    IF IsForged(img[i]) THEN Throws("SetSizes", i, "IMAGE_NOT_RAW")
    ELSE IF ~TestSizes(d) THEN Throws("SetSizes", i, "INVALID_SIZES")
    ELSE Sets("SetSizes", i, [img[i] EXCEPT !.sizes = d])

SetStrides(i, s) ==
    IF IsForged(img[i]) THEN Throws("SetStrides", i, "IMAGE_NOT_RAW")
    ELSE Sets("SetStrides", i, [img[i] EXCEPT !.strides = s])

SetTensorStride(i, ts) ==
    IF IsForged(img[i]) THEN Throws("SetTensorStride", i, "IMAGE_NOT_RAW")
    ELSE Sets("SetTensorStride", i, [img[i] EXCEPT !.tensorStride = ts])

SetTensorSizes(i, nelems) ==
    IF IsForged(img[i]) THEN Throws("SetTensorSizes", i, "IMAGE_NOT_RAW")
    ELSE Sets("SetTensorSizes", i, [img[i] EXCEPT !.tensor = nelems])

SetDataType(i, dt) ==
    IF IsForged(img[i]) THEN Throws("SetDataType", i, "IMAGE_NOT_RAW")
    ELSE Sets("SetDataType", i, [img[i] EXCEPT !.dataType = dt])

SetExternalInterface(i, ei) ==
    IF IsForged(img[i]) THEN Throws("SetExternalInterface", i, "IMAGE_NOT_RAW")
    ELSE Sets("SetExternalInterface", i, [img[i] EXCEPT !.externalInterface = ei])

Protect(i, set) == Sets("Protect", i, [img[i] EXCEPT !.protect = set])

\* The header of a stripped image.
Stripped(r) == [r EXCEPT !.dataBlock = 0, !.origin = 0, !.externalData = FALSE]

StripNoCheck(i) ==
    IF IsForged(img[i]) THEN Sets("Strip", i, Stripped(img[i]))
    ELSE Sets("Strip", i, img[i])

Strip(i) ==
    IF IsForged(img[i])
    THEN IF IsProtected(img[i]) THEN Throws("Strip", i, "Image is protected")
         ELSE Sets("Strip", i, Stripped(img[i]))
    ELSE Sets("Strip", i, img[i])

\* The header of a raw image r after Forge() got segment s.
Forged(r, s) ==
    [r EXCEPT !.strides = NormalStrides(r.sizes, r.tensor), !.tensorStride = 1,
              !.dataBlock = s, !.origin = s]

\* Forge() on a raw image: a new segment with uninitialized samples.
Forge(i) ==
    /\ ~IsForged(img[i])
    /\ \E v \in DataVals :
        LET s == FreshSeg(img) IN
        /\ img' = [img EXCEPT ![i] = Forged(img[i], s)]
        /\ heap' = [heap EXCEPT ![s] = v]
        /\ Done("Forge", i, "")

\* CopyProperties( src ) on a raw image.
CopyProperties(r, src) ==
    [r EXCEPT !.dataType = src.dataType, !.sizes = src.sizes, !.strides = src.strides,
              !.tensor = src.tensor, !.tensorStride = src.tensorStride,
              !.externalInterface = IF r.externalInterface = 0 THEN src.externalInterface
                                    ELSE r.externalInterface]

\* Sample conversion of Copy: the sample tokens are representable in every
\* data type of the model, so none is clipped.
ConvertSamples(v, from, to) == v

\* Copy( src ), called by `op` on image i: a deep copy into i's own segment, or,
\* when i is raw, into a segment forged for it with the properties of src.
Copy(op, i, j) ==
    IF ~IsForged(img[j]) THEN Throws(op, i, "IMAGE_NOT_FORGED")
    ELSE IF IsForged(img[i])
    THEN IF img[i].sizes # img[j].sizes \/ img[i].tensor # img[j].tensor
         THEN Throws(op, i, "SIZES_DONT_MATCH")
         ELSE /\ img' = img
              /\ heap' = [heap EXCEPT ![img[i].dataBlock] =
                            ConvertSamples(heap[img[j].dataBlock], img[j].dataType, img[i].dataType)]
              /\ Done(op, i, "")
    ELSE LET s == FreshSeg(img)
             r == Forged(CopyProperties(img[i], img[j]), s)
         IN /\ img' = [img EXCEPT ![i] = r]
            /\ heap' = [heap EXCEPT ![s] =
                          ConvertSamples(heap[img[j].dataBlock], img[j].dataType, r.dataType)]
            /\ Done(op, i, "")

\* The test both assignment operators make: the left-hand side has an external
\* interface and it is not the one of the right-hand side.
MustCopyAlways(lhs, rhs) == lhs.externalInterface # rhs.externalInterface

MustCopy(lhs, rhs) ==
    lhs.externalInterface # 0 /\ lhs.externalInterface # rhs.externalInterface

\* Image& operator=( Image const& rhs ), as i = j.
CopyAssign(i, j) ==
    IF MustCopy(img[i], img[j]) THEN Copy("CopyAssign", i, j)
    ELSE Sets("CopyAssign", i, img[j])

\* Image& operator=( Image&& rhs ), as i = std::move( j ): swap( rhs ).
MoveAssign(i, j) ==
    IF MustCopy(img[i], img[j]) THEN Copy("MoveAssign", i, j)
    ELSE /\ img' = [img EXCEPT ![i] = img[j], ![j] = img[i]]
         /\ heap' = heap
         /\ Done("MoveAssign", i, "")

\* Sizes, strides, tensor sizes, tensor strides and data types the callers pass.
SizesArgs == {<<2>>, <<0>>}

StridesArgs == {<<3>>}

TensorStrideArgs == {2}

TensorSizesArgs == {2}

DataTypeArgs == {"SFLOAT", "BIN"}

-----------------------------------------------------------------------------
(* Integers wider than the model checker's: sign and magnitude, the        *)
(* magnitude as eight base-256 limbs, least significant first (64 bits).   *)
(* They carry the values of the 8, 16, 32 and 64 bit types of the code.    *)

Limbs == 1..8

ZeroMag == [k \in Limbs |-> 0]

\* The magnitude of a natural number below 2^31.
NatMag(n) == [k \in Limbs |-> IF k <= 4 THEN (n \div 256^(k - 1)) % 256 ELSE 0]

\* 2^n as a magnitude, n < 64.
Pow2Mag(n) == [k \in Limbs |-> IF k = (n \div 8) + 1 THEN 2^(n % 8) ELSE 0]

MagLess(a, b) == \E k \in Limbs : a[k] < b[k] /\ \A j \in Limbs : j > k => a[j] = b[j]

RECURSIVE AddLimbs(_, _, _, _)
AddLimbs(a, b, k, c) ==
    IF k > 8 THEN <<>>
    ELSE LET t == a[k] + b[k] + c IN <<t % 256>> \o AddLimbs(a, b, k + 1, t \div 256)

MagAdd(a, b) == AddLimbs(a, b, 1, 0)

RECURSIVE SubLimbs(_, _, _, _)
SubLimbs(a, b, k, c) ==
    IF k > 8 THEN <<>>
    ELSE LET t == a[k] - b[k] - c
         IN <<t % 256>> \o SubLimbs(a, b, k + 1, IF t < 0 THEN 1 ELSE 0)

\* a - b for a >= b.
MagSub(a, b) == SubLimbs(a, b, 1, 0)

RECURSIVE ColSum(_, _, _, _)
ColSum(a, b, k, i) == IF i > k THEN 0 ELSE a[i] * b[k + 1 - i] + ColSum(a, b, k, i + 1)

RECURSIVE MulLimbs(_, _, _, _)
MulLimbs(a, b, k, c) ==
    IF k > 8 THEN <<>>
    ELSE LET t == ColSum(a, b, k, 1) + c IN <<t % 256>> \o MulLimbs(a, b, k + 1, t \div 256)

MagMul(a, b) == MulLimbs(a, b, 1, 0)

Bit(a, n) == (a[(n \div 8) + 1] \div 2^(n % 8)) % 2

\* Long division, one bit of the dividend at a time, from bit n down.
RECURSIVE DivBits(_, _, _, _, _)
DivBits(a, b, n, r, q) ==
    IF n < 0 THEN q
    ELSE LET r2 == MagAdd(MagAdd(r, r), NatMag(Bit(a, n)))
         IN IF MagLess(r2, b) THEN DivBits(a, b, n - 1, r2, q)
            ELSE DivBits(a, b, n - 1, MagSub(r2, b),
                         [q EXCEPT ![(n \div 8) + 1] = @ + 2^(n % 8)])

\* The highest limb of a that is not zero (1 when a is zero).
TopLimb(a) == CHOOSE k \in Limbs : (k = 1 \/ a[k] # 0) /\ \A j \in Limbs : j > k => a[j] = 0

\* floor(a / b) for b # 0.
MagDiv(a, b) == DivBits(a, b, 8 * TopLimb(a) - 1, ZeroMag, ZeroMag)

WNorm(neg, mag) == [neg |-> neg /\ mag # ZeroMag, mag |-> mag]

\* The wide integer of an integer of the model checker.
W(n) == WNorm(n < 0, NatMag(IF n < 0 THEN -n ELSE n))

WNeg(x) == WNorm(~x.neg, x.mag)

WAdd(x, y) ==
    IF x.neg = y.neg THEN WNorm(x.neg, MagAdd(x.mag, y.mag))
    ELSE IF MagLess(x.mag, y.mag) THEN WNorm(y.neg, MagSub(y.mag, x.mag))
    ELSE WNorm(x.neg, MagSub(x.mag, y.mag))

WSub(x, y) == WAdd(x, WNeg(y))

WMul(x, y) == WNorm(x.neg # y.neg, MagMul(x.mag, y.mag))

\* The quotient of C++: truncated towards zero; y # 0.
WDiv(x, y) == WNorm(x.neg # y.neg, MagDiv(x.mag, y.mag))

WLess(x, y) ==
    IF x.neg # y.neg THEN x.neg
    ELSE IF x.neg THEN MagLess(y.mag, x.mag)
    ELSE MagLess(x.mag, y.mag)

\* Conversion to an unsigned type of `bits` bits: the value modulo 2^bits.
ToUnsigned(x, bits) ==
    LET low == [k \in Limbs |-> IF k <= bits \div 8 THEN x.mag[k] ELSE 0]
    IN IF ~x.neg \/ low = ZeroMag THEN WNorm(FALSE, low)
       ELSE WNorm(FALSE, MagSub(Pow2Mag(bits), low))

\* Conversion to a signed type of `bits` bits: modulo 2^bits, two's complement.
ToSigned(x, bits) ==
    LET u == ToUnsigned(x, bits)
    IN IF MagLess(u.mag, Pow2Mag(bits - 1)) THEN u
       ELSE WNorm(TRUE, MagSub(Pow2Mag(bits), u.mag))

-----------------------------------------------------------------------------
(* dip::saturated_XXX                                                      *)

\* The integer sample types uint8, uint16, uint32, sint8, sint16, sint32.
IntKinds == [signed : BOOLEAN, bits : {8, 16, 32}]

\* dip::bin: the values 0 and 1.
BinKind == [signed |-> FALSE, bits |-> 1]

Kinds == IntKinds \cup {BinKind}

\* std::numeric_limits< T >::max() and lowest().
TypeMax(k) ==
    WSub(WNorm(FALSE, Pow2Mag(IF k.signed THEN k.bits - 1 ELSE k.bits)), W(1))

TypeMin(k) == IF k.signed THEN WNorm(TRUE, Pow2Mag(k.bits - 1)) ELSE W(0)

\* clamp_both< T, S >( v ): v, of the wider type S, clamped into the range of T.
clamp_both(v, k) ==
    IF WLess(v, TypeMin(k)) THEN TypeMin(k)
    ELSE IF WLess(TypeMax(k), v) THEN TypeMax(k)
    ELSE v

\* clamp_upper< T >( v ): v, of a wider unsigned type, clamped to the maximum of T.
clamp_upper(v, k) == IF WLess(TypeMax(k), v) THEN TypeMax(k) ELSE v

BinOf(b) == W(IF b THEN 1 ELSE 0)

IsSet(x) == x # W(0)

\* The unsigned specializations of saturated_add without the test for overflow.
saturated_add_wraps(lhs, rhs, k) == ToUnsigned(WAdd(lhs, rhs), k.bits)

\* uint32, uint16, uint8: the sum is stored in the operands' type (modulo
\* 2^bits); a sum smaller than lhs has wrapped around.
saturated_add_unsigned(lhs, rhs, k) ==
    LET res == ToUnsigned(WAdd(lhs, rhs), k.bits)
    IN IF WLess(res, lhs) THEN TypeMax(k) ELSE res

\* sint32, sint16, sint8: the sum is computed in the next wider type.
saturated_add_signed(lhs, rhs, k) == clamp_both(WAdd(lhs, rhs), k)

saturated_add(lhs, rhs, k) ==
    IF k = BinKind THEN BinOf(IsSet(lhs) \/ IsSet(rhs))
    ELSE IF k.signed THEN saturated_add_signed(lhs, rhs, k)
    ELSE saturated_add_unsigned(lhs, rhs, k)

\* uint32, uint16, uint8: a difference larger than lhs has wrapped around.
saturated_sub_unsigned(lhs, rhs, k) ==
    LET res == ToUnsigned(WSub(lhs, rhs), k.bits)
    IN IF WLess(lhs, res) THEN W(0) ELSE res

saturated_sub_signed(lhs, rhs, k) == clamp_both(WSub(lhs, rhs), k)

saturated_sub(lhs, rhs, k) ==
    IF k = BinKind THEN BinOf(IsSet(lhs) /\ ~IsSet(rhs))
    ELSE IF k.signed THEN saturated_sub_signed(lhs, rhs, k)
    ELSE saturated_sub_unsigned(lhs, rhs, k)

\* The product is computed in a type of twice the width.
saturated_mul_unsigned(lhs, rhs, k) == clamp_upper(WMul(lhs, rhs), k)

saturated_mul_signed(lhs, rhs, k) == clamp_both(WMul(lhs, rhs), k)

saturated_mul(lhs, rhs, k) ==
    IF k = BinKind THEN BinOf(IsSet(lhs) /\ IsSet(rhs))
    ELSE IF k.signed THEN saturated_mul_signed(lhs, rhs, k)
    ELSE saturated_mul_unsigned(lhs, rhs, k)

\* The result of a call: a value, or a fault of the machine.
Returns(v) == [fault |-> FALSE, r |-> v]

Fault == [fault |-> TRUE, r |-> W(0)]

\* The conversion of an int or wider value to the return type T.
ToKind(v, k) == IF k.signed THEN ToSigned(v, k.bits) ELSE ToUnsigned(v, k.bits)

\* The base template: lhs / rhs in the type the operands are promoted to (int
\* for the 8 and 16 bit types), converted to T. Division by zero, and
\* lowest() / -1 in sint32, is undefined behaviour: the build traps, or it
\* returns what its division instruction leaves (0, and the wrapped quotient).
saturated_div(lhs, rhs, k) ==
    IF k = BinKind THEN {Returns(BinOf(IsSet(lhs) # IsSet(rhs)))}
    ELSE IF rhs = W(0) THEN {Fault, Returns(W(0))}
    ELSE IF k.signed /\ k.bits = 32 /\ lhs = TypeMin(k) /\ rhs = W(-1)
    THEN {Fault, Returns(ToKind(WDiv(lhs, rhs), k))}
    ELSE {Returns(ToKind(WDiv(lhs, rhs), k))}

saturated_inv(v, k) ==
    IF k = BinKind THEN BinOf(~IsSet(v))
    ELSE IF k.signed THEN (IF v = TypeMin(k) THEN TypeMax(k) ELSE WNeg(v))
    ELSE WSub(TypeMax(k), v)

\* Operands are taken within SatNear of the ends of the type's range, of zero
\* and of the square root of the range, and from the values of the unit test.
SatNear == 2

Around(c) == {WAdd(c, W(d)) : d \in (-SatNear)..SatNear}

TestValues == {W(n) : n \in {10, 20, 250, 300, 1000, -1000, 10000, 30000}}

Operands(k) ==
    IF k = BinKind THEN {W(0), W(1)}
    ELSE {v \in Around(TypeMin(k)) \cup Around(TypeMax(k)) \cup Around(W(0))
                \cup Around(W(2^(k.bits \div 2))) \cup Around(W(-(2^(k.bits \div 2))))
                \cup TestValues :
            ~WLess(v, TypeMin(k)) /\ ~WLess(TypeMax(k), v)}

\* One call: the operands are those the program holds, the result is stored.
SatCall(op, res) ==
    /\ sat.op = "none"
    /\ sat' = [sat EXCEPT !.op = op, !.r = res.r, !.fault = res.fault]
    /\ UNCHANGED <<imgVars, bp, call>>

SatAdd == SatCall("add", Returns(saturated_add(sat.a, sat.b, sat.kind)))

SatSub == SatCall("sub", Returns(saturated_sub(sat.a, sat.b, sat.kind)))

SatMul == SatCall("mul", Returns(saturated_mul(sat.a, sat.b, sat.kind)))

SatDiv ==
    /\ sat.op = "none"
    /\ \E res \in saturated_div(sat.a, sat.b, sat.kind) : SatCall("div", res)

SatInv == SatCall("inv", Returns(saturated_inv(sat.a, sat.kind)))

-----------------------------------------------------------------------------
(* dip::BinaryPropagation and dip::EdgeObjectsRemove                       *)

\* c_inMask.Sizes() of the calls: the images are 2-D.
Sizes == <<3, 3>>

nDims == Len(Sizes)

\* out.Strides() after out.ReForge( inMask.Sizes(), 1, DT_BIN ).
Strides == NormalStrides(Sizes, 1)

\* The samples of an image, by their offset from the origin.
Offsets == 0..(Product(Sizes, nDims) - 1)

\* Binary images of these sizes.
BinImages == [Offsets -> {0, 1}]

\* out.OffsetToCoordinatesComputer().
coordsComputer == [off \in Offsets |-> [d \in 1..nDims |-> (off \div Strides[d]) % Sizes[d]]]

RECURSIVE SumAbs(_, _)
SumAbs(d, k) == IF k = 0 THEN 0 ELSE (IF d[k] < 0 THEN -d[k] ELSE d[k]) + SumAbs(d, k - 1)

RECURSIVE Dot(_, _, _)
Dot(d, st, k) == IF k = 0 THEN 0 ELSE d[k] * st[k] + Dot(d, st, k - 1)

\* NeighborList( { Metric::TypeCode::CONNECTED, connectivity }, nDims ): the
\* neighbours at most `connectivity` unit steps away, one step per dimension.
NeighborSet(connectivity) ==
    {d \in [1..nDims -> {-1, 0, 1}] : SumAbs(d, nDims) >= 1 /\ SumAbs(d, nDims) <= connectivity}

RECURSIVE InOffsetOrder(_)
InOffsetOrder(ds) ==
    IF ds = {} THEN <<>>
    ELSE LET d == CHOOSE x \in ds : \A y \in ds : Dot(x, Strides, nDims) <= Dot(y, Strides, nDims)
         IN <<d>> \o InOffsetOrder(ds \ {d})

\* The neighbour lists as they are iterated, by connectivity.
NeighborList == [c \in 0..nDims |-> InOffsetOrder(NeighborSet(c))]

\* NeighborList::ComputeOffsets( out.Strides() ), for one neighbour.
ComputeOffset(d) == Dot(d, Strides, nDims)

\* NeighborList::Iterator::IsInImage( coords, sizes ).
IsInImage(d, coords) == \A k \in 1..nDims : coords[k] + d[k] >= 0 /\ coords[k] + d[k] < Sizes[k]

\* The connectivity of iteration `iteration`: a negative connectivity alternates
\* between its absolute value (even iterations) and one less (odd iterations).
GetAbsBinaryConnectivity(connectivity, iteration) ==
    IF connectivity < 0
    THEN (IF iteration % 2 = 0 THEN -connectivity ELSE -connectivity - 1)
    ELSE connectivity

\* a & b, a | b and a ^ b on uint8.
RECURSIVE BitAndR(_, _)
BitAndR(a, b) ==
    IF a = 0 \/ b = 0 THEN 0 ELSE (a % 2) * (b % 2) + 2 * BitAndR(a \div 2, b \div 2)

BitAndTable == [a \in 0..255 |-> [b \in 0..255 |-> BitAndR(a, b)]]

BitAnd(a, b) == BitAndTable[a][b]

BitOr(a, b) == a + b - BitAnd(a, b)

BitXor(a, b) == a + b - 2 * BitAnd(a, b)

dataBitmask == 1

\* 1 << maskPlane, 1 << borderPlane, 1 << seedPlane.
maskBitmask == 2^3

borderBitmask == 2^2

seedBitmask == 2^0

maskOrSeedBitmask == BitOr(seedBitmask, maskBitmask)

\* The pixels on the image border: a coordinate is the first or the last.
BorderPixels ==
    {off \in Offsets :
        \E k \in 1..nDims : coordsComputer[off][k] = 0 \/ coordsComputer[off][k] = Sizes[k] - 1}

\* ApplyBinaryBorderMask( out, borderBitmask ).
ApplyBinaryBorderMask(o) ==
    [p \in Offsets |-> IF p \in BorderPixels THEN BitOr(o[p], borderBitmask) ELSE o[p]]

\* The loop that adds the mask plane to out.
AddMaskPlane(o, inMask) ==
    [p \in Offsets |-> IF inMask[p] # 0 THEN BitOr(o[p], maskBitmask) ELSE o[p]]

\* A pixel of the wanted type with a neighbour of the other type; the pixels
\* outside the image count as object or as background.
IsBinaryEdgePixel(o, p, findObjectPixels, nl, outsideImageIsObject) ==
    \E n \in 1..Len(nl) :
        IF BitAnd(o[p], borderBitmask) # 0 /\ ~IsInImage(nl[n], coordsComputer[p])
        THEN outsideImageIsObject # findObjectPixels
        ELSE (BitAnd(o[p + ComputeOffset(nl[n])], dataBitmask) # 0) # findObjectPixels

RECURSIVE EdgePixelsFrom(_, _, _, _, _)
EdgePixelsFrom(o, p, findObjectPixels, nl, outsideImageIsObject) ==
    IF p \notin Offsets THEN <<>>
    ELSE (IF (BitAnd(o[p], dataBitmask) # 0) = findObjectPixels
             /\ IsBinaryEdgePixel(o, p, findObjectPixels, nl, outsideImageIsObject)
          THEN <<p>> ELSE <<>>)
         \o EdgePixelsFrom(o, p + 1, findObjectPixels, nl, outsideImageIsObject)

\* FindBinaryEdgePixels: the queue of edge pixels, in image order.
FindBinaryEdgePixels(o, findObjectPixels, nl, outsideImageIsObject) ==
    EdgePixelsFrom(o, 0, findObjectPixels, nl, outsideImageIsObject)

FloodsUnmasked(byte) == BitAnd(byte, seedBitmask) = 0

\* Masked and not seeded: the pixel takes the propagation.
Floods(byte) == BitAnd(byte, maskOrSeedBitmask) = maskBitmask

\* The first iteration over the queue q: [out, queue] after its element k and
\* the ones behind it.
RECURSIVE FirstIteration(_, _, _, _)
FirstIteration(o, q, k, acc) ==
    IF k > Len(q) THEN [out |-> o, queue |-> acc]
    ELSE IF Floods(o[q[k]])
    THEN FirstIteration([o EXCEPT ![q[k]] = BitOr(@, seedBitmask)], q, k + 1, Append(acc, q[k]))
    ELSE FirstIteration(o, q, k + 1, acc)

\* The neighbours of pPixel from neighbour n on: [out, queue] after them.
RECURSIVE Propagate(_, _, _, _, _)
Propagate(o, acc, pPixel, nl, n) ==
    IF n > Len(nl) THEN [out |-> o, queue |-> acc]
    ELSE IF BitAnd(o[pPixel], borderBitmask) = 0 \/ IsInImage(nl[n], coordsComputer[pPixel])
    THEN LET pNeighbor == pPixel + ComputeOffset(nl[n])
         IN IF Floods(o[pNeighbor])
            THEN Propagate([o EXCEPT ![pNeighbor] = BitOr(@, seedBitmask)],
                           Append(acc, pNeighbor), pPixel, nl, n + 1)
            ELSE Propagate(o, acc, pPixel, nl, n + 1)
    ELSE Propagate(o, acc, pPixel, nl, n + 1)

\* One iteration of the dilation loop over the queue q, from its element k on.
RECURSIVE Iteration(_, _, _, _, _)
Iteration(o, q, k, acc, nl) ==
    IF k > Len(q) THEN [out |-> o, queue |-> acc]
    ELSE LET r == Propagate(o, acc, q[k], nl, 1)
         IN Iteration(r.out, q, k + 1, r.queue, nl)

FinalByteOfSeed(byte) == IF BitAnd(byte, seedBitmask) = seedBitmask THEN 1 ELSE 0

\* The final step: the data bit is set iff seed bit and mask bit are.
FinalByte(byte) == IF BitAnd(byte, maskOrSeedBitmask) = maskOrSeedBitmask THEN 1 ELSE 0

OrImages(o, in) == [p \in Offsets |-> BitOr(o[p], in[p])]

\* out ^= in.
XorImages(o, in) == [p \in Offsets |-> BitXor(o[p], in[p])]

\* BinaryPropagation up to the queue of edge pixels. The arguments pass the
\* tests on entry: the mask is a forged scalar binary image, a forged seed is
\* one too and has the sizes of the mask, connectivity <= nDims, and the edge
\* condition is one of the two strings. An out that aliases the mask is
\* stripped; ReForge then forges a raw out on a fresh segment and keeps the
\* segment of a forged out that has the sizes and the type asked for, which
\* is the seed's segment when out shares it. out gets the seed (or zeros; the
\* copy of the seed onto itself changes nothing), the border mask and the
\* mask plane.
BPSetup ==
    /\ bp.pc = "start"
    /\ LET outsideImageIsObject == bp.edge = "object"
           o0 == IF bp.seedForged THEN bp.seed ELSE [p \in Offsets |-> 0]
           o1 == AddMaskPlane(ApplyBinaryBorderMask(o0), bp.mask)
           nl0 == NeighborList[GetAbsBinaryConnectivity(bp.conn, 0)]
       IN bp' = [bp EXCEPT !.pc = "first", !.out = o1,
                           !.outSeg = IF bp.outArg = "seed" THEN "seed" ELSE "fresh",
                           !.queue = FindBinaryEdgePixels(o1, FALSE, nl0, outsideImageIsObject)]
    /\ UNCHANGED <<imgVars, sat, call>>

\* The loop condition iDilIter < iterations; iterations == 0 stands for the
\* largest dip::uint, which iDilIter does not reach.
LoopRuns(iDilIter) == bp.iterations = 0 \/ iDilIter < bp.iterations

\* First iteration: the queued pixels that are masked and not seeded are seeded.
BPFirst ==
    /\ bp.pc = "first"
    /\ LET r == FirstIteration(bp.out, bp.queue, 1, <<>>)
       IN bp' = [bp EXCEPT !.pc = IF LoopRuns(1) THEN "iterate" ELSE "final",
                           !.out = r.out, !.queue = r.queue, !.iDilIter = 1]
    /\ UNCHANGED <<imgVars, sat, call>>

neighborListEven(iDilIter) == 0

\* iDilIter & 1 ? neighborList1 : neighborList0, as the iteration number that
\* the list was made for.
neighborList(iDilIter) == iDilIter % 2

\* One iteration of the loop over iDilIter; the loop ends on an empty queue
\* or when iDilIter reaches iterations.
BPIterate ==
    /\ bp.pc = "iterate"
    /\ LET nl == NeighborList[GetAbsBinaryConnectivity(bp.conn, neighborList(bp.iDilIter))]
           r == Iteration(bp.out, bp.queue, 1, <<>>, nl)
           again == r.queue # <<>> /\ LoopRuns(bp.iDilIter + 1)
       IN bp' = [bp EXCEPT !.pc = IF again THEN "iterate" ELSE "final",
                           !.out = r.out, !.queue = r.queue,
                           !.iDilIter = IF r.queue = <<>> THEN @ ELSE @ + 1]
    /\ UNCHANGED <<imgVars, sat, call>>

\* Final step of BinaryPropagation; EdgeObjectsRemove goes on with out ^= in.
BPFinish ==
    /\ bp.pc = "final"
    /\ bp' = [bp EXCEPT !.pc = IF bp.caller = "EdgeObjectsRemove" THEN "xor" ELSE "done",
                        !.out = [p \in Offsets |-> FinalByte(bp.out[p])]]
    /\ UNCHANGED <<imgVars, sat, call>>

\* The samples of in after BinaryPropagation returned: in is an image of its
\* own, or it is the very image out, which BinaryPropagation stripped and
\* reforged and which now holds the edge objects.
InAfterPropagation == IF bp.outArg = "in" THEN bp.out ELSE bp.mask

\* EdgeObjectsRemove after BinaryPropagation returned.
EdgeObjectsRemoveXor ==
    /\ bp.pc = "xor"
    /\ bp' = [bp EXCEPT !.pc = "done", !.out = XorImages(bp.out, InAfterPropagation)]
    /\ UNCHANGED <<imgVars, sat, call>>

-----------------------------------------------------------------------------
(* dip::Interval                                                           *)

\* A forged scalar image of this part: its sizes and its samples, by their
\* offset from the origin (normal strides); a raw image has no sizes.
Img(sizes, px) == [sizes |-> sizes, px |-> px]

RawImg == Img(<<>>, <<>>)

NumPx(sizes) == Product(sizes, Len(sizes))

\* The images of the given sizes with samples in vals.
ImagesOf(sizes, vals) == {Img(sizes, px) : px \in [0..(NumPx(sizes) - 1) -> vals]}

\* image == v, as a binary image.
EqualTo(image, v) == Img(image.sizes, [p \in DOMAIN image.px |-> IF image.px[p] = v THEN 1 ELSE 0])

\* dip::Any( image ).As< bool >().
AnyPixel(image) == \E p \in DOMAIN image.px : image.px[p] # 0

\* dip::Infimum of two binary images of the same sizes.
Infimum(a, b) == Img(a.sizes, [p \in DOMAIN a.px |-> IF a.px[p] # 0 /\ b.px[p] # 0 THEN 1 ELSE 0])

NotOdd(sizes) == \E k \in 1..Len(sizes) : sizes[k] % 2 = 0

Failed(err) == [err |-> err, hit |-> RawImg, miss |-> RawImg]

Built(hit, miss) == [err |-> "", hit |-> hit, miss |-> miss]

\* Interval::Interval( Image const& image ).
IntervalOfImage(image) ==
    IF NotOdd(image.sizes) THEN Failed("The interval is not odd in size")
    ELSE IF ~AnyPixel(EqualTo(image, 1)) THEN Failed("The interval needs at least one foreground pixel")
    ELSE Built(EqualTo(image, 1), IF AnyPixel(EqualTo(image, 0)) THEN EqualTo(image, 0) ELSE RawImg)

IntervalOfOverlapping(hit, miss) ==
    IF hit.sizes # miss.sizes THEN Failed("Sizes don't match")
    ELSE IF NotOdd(hit.sizes) THEN Failed("The interval is not odd in size")
    ELSE IF ~AnyPixel(hit) THEN Failed("The interval needs at least one foreground pixel")
    ELSE Built(hit, IF AnyPixel(miss) THEN miss ELSE RawImg)

\* Interval::Interval( Image hit, Image miss ).
IntervalOfHitMiss(hit, miss) ==
    IF hit.sizes # miss.sizes THEN Failed("Sizes don't match")
    ELSE IF NotOdd(hit.sizes) THEN Failed("The interval is not odd in size")
    ELSE IF ~AnyPixel(hit) THEN Failed("The interval needs at least one foreground pixel")
    ELSE IF ~AnyPixel(miss) THEN Built(hit, RawImg)
    ELSE IF AnyPixel(Infimum(hit, miss)) THEN Failed("The hit and miss images are not disjoint")
    ELSE Built(hit, miss)

\* Interval::HatMissSamples().
HatMissSamples(interval) == interval.miss # RawImg

\* Image::Pad( sizes ): the image in the centre of an image of zeros.
Pad(image, sizes) ==
    LET ox == (sizes[1] - image.sizes[1]) \div 2
        oy == (sizes[2] - image.sizes[2]) \div 2
        inside(x, y) == /\ x >= ox /\ x < ox + image.sizes[1]
                        /\ y >= oy /\ y < oy + image.sizes[2]
    IN Img(sizes, [p \in 0..(NumPx(sizes) - 1) |->
                      LET x == p % sizes[1]
                          y == p \div sizes[1]
                      IN IF inside(x, y) THEN image.px[(x - ox) + (y - oy) * image.sizes[1]] ELSE 0])

\* Image::Rotation90( n ) on a 2-D image, as the samples are read through the
\* rotated view: one step turns the image clockwise, (x, y) goes to
\* (height - 1 - y, x).
RECURSIVE Rotation90(_, _)
Rotation90(image, n) ==
    IF n = 0 \/ image = RawImg THEN image
    ELSE LET w == image.sizes[1]
             h == image.sizes[2]
         IN Rotation90(Img(<<h, w>>, [p \in 0..(w * h - 1) |->
                                         image.px[(p \div h) + (h - 1 - (p % h)) * w]]), n - 1)

RECURSIVE MoveSamplesOpen(_, _, _, _)
MoveSamplesOpen(px, ptr, k, value) ==
    IF k = Len(ptr) THEN px
    ELSE MoveSamplesOpen([px EXCEPT ![ptr[k]] = px[ptr[k + 1]]], ptr, k + 1, value)

\* The eight assignments through ptr1 and ptr2 of one round of the inner loop:
\* *ptr[1] = *ptr[2], ..., *ptr[7] = *ptr[8], *ptr[8] = value.
RECURSIVE MoveSamples(_, _, _, _)
MoveSamples(px, ptr, k, value) ==
    IF k = Len(ptr) THEN [px EXCEPT ![ptr[k]] = value]
    ELSE MoveSamples([px EXCEPT ![ptr[k]] = px[ptr[k + 1]]], ptr, k + 1, value)

\* The loop over ii for one shell, from round ii on.
RECURSIVE RotateShell(_, _, _, _, _, _)
RotateShell(px, ptr, n, ii, stepX, stepY) ==
    IF ii >= n THEN px
    ELSE LET nStepX == n * stepX
             nStepY == n * stepY
             nEndX == 2 * nStepX
             nEndY == 2 * nStepY
             iX == ii * stepX
             iY == ii * stepY
             ptrs == << ptr + iX,
                        ptr + nStepY - iY,
                        ptr + nStepY - iY + nStepY,
                        ptr + nStepX - iX + nEndY,
                        ptr + nStepX - iX + nEndY + nStepX,
                        ptr + nEndX + iY + nStepY,
                        ptr + nEndX + iY + nStepY - nStepY,
                        ptr + nStepX + iX >>
         IN RotateShell(MoveSamples(px, ptrs, 1, px[ptrs[1]]), ptr, n, ii + 1, stepX, stepY)

\* The loop over the shells, from shell on.
RECURSIVE RotateShells(_, _, _, _)
RotateShells(px, len, shell, ptr) ==
    IF shell >= len \div 2 THEN px
    ELSE RotateShells(RotateShell(px, ptr, len \div 2 - shell, 0, 1, len),
                      len, shell + 1, ptr + 1 + len)

\* RotateBy45Degrees( input ): input is 2-D; an image that is not square is
\* padded to a square one.
RotateBy45Degrees(input) ==
    LET len == IF input.sizes[1] >= input.sizes[2] THEN input.sizes[1] ELSE input.sizes[2]
        output == IF input.sizes[2] = input.sizes[1] THEN input ELSE Pad(input, <<len, len>>)
    IN Img(output.sizes, RotateShells(output.px, len, 0, 0))

\* hit_ and miss_ of an interval both turned; miss_ only if it has samples.
Turned(interval, hit, miss) ==
    [interval EXCEPT !.hit = hit, !.miss = IF HatMissSamples(interval) THEN miss ELSE @]

\* The loops `for( ii = 0; ii < 3; ++ii )`: output[ next ] is output[ cur ]
\* turned by 90 degrees, with next `stride` further on (clockwise) or back.
RECURSIVE QuarterTurns(_, _, _, _, _)
QuarterTurns(output, cur, ii, clockwise, stride) ==
    IF ii >= 3 THEN output
    ELSE LET N == Len(output)
             next == IF clockwise THEN cur + stride
                     ELSE (IF cur = 0 THEN N ELSE cur) - stride
             turned == Turned(output[cur + 1], Rotation90(output[cur + 1].hit, 1),
                              Rotation90(output[cur + 1].miss, 1))
         IN QuarterTurns([output EXCEPT ![next + 1] = turned], next, ii + 1, clockwise, stride)

RotationSteps == [a \in {45, 90, 180} |-> IF a = 45 THEN 1 ELSE IF a = 90 THEN 2 ELSE 4]

RotationDirections ==
    {"interleaved clockwise", "interleaved counter-clockwise", "clockwise", "counter-clockwise"}

GenerateInOrder(this, rotationAngle, rotationDirection) ==
    LET step == RotationSteps[rotationAngle]
        clockwise == rotationDirection \in {"interleaved clockwise", "clockwise"}
        o0 == [k \in 1..(8 \div step) |-> IF k = 1 THEN this ELSE Built(RawImg, RawImg)]
        cur == IF clockwise THEN 1 ELSE 7
        o1 == IF step = 1
              THEN QuarterTurns([o0 EXCEPT ![cur + 1] =
                                    [@ EXCEPT !.hit = RotateBy45Degrees(this.hit),
                                              !.miss = IF HatMissSamples(this)
                                                       THEN RotateBy45Degrees(this.miss) ELSE @]],
                                cur, 0, clockwise, 2)
              ELSE o0
    IN IF step # 4
       THEN QuarterTurns(o1, 0, 0, clockwise, 3 - step)
       ELSE [o1 EXCEPT ![2] = Turned(o1[1], Rotation90(o1[1].hit, 2), Rotation90(o1[1].miss, 2))]

\* Interval::GenerateRotatedVersions( rotationAngle, rotationDirection ) on a
\* 2-D interval, for an angle and a direction that are accepted: output, whose
\* element k is output[k + 1] here.
GenerateRotatedVersions(this, rotationAngle, rotationDirection) ==
    LET step == RotationSteps[rotationAngle]
        interleaved == rotationDirection \in {"interleaved clockwise", "interleaved counter-clockwise"}
        clockwise == rotationDirection \in {"interleaved clockwise", "clockwise"}
        N == 8 \div step
        o0 == [k \in 1..N |-> IF k = 1 THEN this ELSE Built(RawImg, RawImg)]
        cur == IF clockwise THEN 1 ELSE 7
        o1 == IF step = 1
              THEN QuarterTurns([o0 EXCEPT ![cur + 1] =
                                    [@ EXCEPT !.hit = RotateBy45Degrees(this.hit),
                                              !.miss = IF HatMissSamples(this)
                                                       THEN RotateBy45Degrees(this.miss) ELSE @]],
                                cur, 0, clockwise, 2)
              ELSE o0
        o2 == IF step # 4
              THEN QuarterTurns(o1, 0, 0, clockwise, 3 - step)
              ELSE [o1 EXCEPT ![2] = Turned(o1[1], Rotation90(o1[1].hit, 2), Rotation90(o1[1].miss, 2))]
    IN IF ~interleaved THEN o2
       ELSE IF step = 1
       THEN [o2 EXCEPT ![2] = o2[5], ![5] = o2[3], ![3] = o2[2],
                       ![4] = o2[6], ![6] = o2[7], ![7] = o2[4]]
       ELSE IF step = 2
       THEN [o2 EXCEPT ![2] = o2[3], ![3] = o2[2]]
       ELSE o2

\* The sample of a 2-D binary image that the pixel se of a structuring
\* element centred on pixel p looks at; outside the image it is `outside`.
Under(in, p, se, seSizes, outside) ==
    LET x == (p % in.sizes[1]) + (se % seSizes[1]) - (seSizes[1] \div 2)
        y == (p \div in.sizes[1]) + (se \div seSizes[1]) - (seSizes[2] \div 2)
    IN IF x < 0 \/ x >= in.sizes[1] \/ y < 0 \/ y >= in.sizes[2] THEN outside
       ELSE in.px[x + y * in.sizes[1]]

\* dip::Erosion and dip::Dilation of a binary image by a structuring element
\* given as an image: the minimum (maximum) over the pixels the element
\* covers; the pixels outside the image do not lower (raise) it.
Erosion(in, se) ==
    Img(in.sizes, [p \in DOMAIN in.px |->
                      IF \A q \in DOMAIN se.px : se.px[q] # 0 => Under(in, p, q, se.sizes, 1) # 0
                      THEN 1 ELSE 0])

Dilation(in, se) ==
    Img(in.sizes, [p \in DOMAIN in.px |->
                      IF \E q \in DOMAIN se.px : se.px[q] # 0 /\ Under(in, p, q, se.sizes, 0) # 0
                      THEN 1 ELSE 0])

\* a += b, a -= b and a &= b on binary images: OR, AND NOT and AND.
BinAdd(a, b) == Img(a.sizes, [p \in DOMAIN a.px |-> IF a.px[p] # 0 \/ b.px[p] # 0 THEN 1 ELSE 0])

BinSub(a, b) == Img(a.sizes, [p \in DOMAIN a.px |-> IF a.px[p] # 0 /\ b.px[p] = 0 THEN 1 ELSE 0])

\* dip::SupGenerating( in, interval ).
SupGenerating(in, interval) ==
    IF HatMissSamples(interval)
    THEN BinSub(Erosion(in, interval.hit), Dilation(in, interval.miss))
    ELSE Erosion(in, interval.hit)

\* The loop over the intervals of one pass of ThickeningThinning, from
\* interval k on: [out, change]. change is set when Any( tmp ) holds.
RECURSIVE OverIntervals(_, _, _, _, _, _, _)
OverIntervals(out, change, intervals, k, mask, thickening, untilConvergence) ==
    IF k > Len(intervals) THEN [out |-> out, change |-> change]
    ELSE LET sup == SupGenerating(out, intervals[k])
             tmp == IF mask # RawImg THEN Infimum(sup, mask) ELSE sup
             new == IF thickening THEN BinAdd(out, tmp) ELSE BinSub(out, tmp)
         IN OverIntervals(new, change \/ (untilConvergence /\ AnyPixel(tmp)),
                          intervals, k + 1, mask, thickening, untilConvergence)

\* The passes of a call of Thickening or Thinning that the model follows.
MaxPasses == 3

\* A step of a call of a library function other than the ones above.
CallStep(fn, pc, next) ==
    /\ call.fn = fn
    /\ call.pc = pc
    /\ call' = next
    /\ UNCHANGED notCallVars

\* Interval( image ) is constructed.
ConstructFromImage ==
    /\ call.fn = "Interval(image)"
    /\ CallStep(call.fn, "start",
                [call EXCEPT !.pc = "built", !.interval = IntervalOfImage(call.image)])

\* Interval( hit, miss ) is constructed.
ConstructFromHitMiss ==
    /\ call.fn = "Interval(hit,miss)"
    /\ CallStep(call.fn, "start",
                [call EXCEPT !.pc = "built", !.interval = IntervalOfHitMiss(call.hit, call.miss)])

\* GenerateRotatedVersions is called on an interval that was constructed.
Generate(rotationAngle, rotationDirection) ==
    /\ call.fn \in {"Interval(image)", "Interval(hit,miss)"}
    /\ call.pc = "built"
    /\ call.interval.err = ""
    /\ CallStep(call.fn, "built",
                [call EXCEPT !.pc = "rotated", !.angle = rotationAngle, !.direction = rotationDirection,
                             !.output = GenerateRotatedVersions(call.interval, rotationAngle,
                                                                rotationDirection)])

\* The test case of RotateBy45Degrees: out = RotateBy45Degrees( out ), 8 times.
Rotate ==
    /\ call.fn = "RotateBy45Degrees"
    /\ call.ii < 8
    /\ CallStep(call.fn, "loop",
                [call EXCEPT !.out = RotateBy45Degrees(call.out), !.ii = @ + 1])

\* One pass of the loop `while( true )` of ThickeningThinning; before holds
\* the image the pass started from.
ThickeningThinningPass ==
    /\ call.fn \in {"Thickening", "Thinning"}
    /\ call.passes < MaxPasses
    /\ LET untilConvergence == call.iterations0 = 0
           r == OverIntervals(call.out, FALSE, call.intervals, 1, call.mask,
                              call.fn = "Thickening", untilConvergence)
           break == IF untilConvergence THEN ~r.change ELSE call.iterations - 1 = 0
       IN CallStep(call.fn, "loop",
                   [call EXCEPT !.pc = IF break THEN "done" ELSE "loop",
                                !.before = call.out, !.out = r.out,
                                !.iterations = IF untilConvergence THEN @ ELSE @ - 1,
                                !.passes = @ + 1])

-----------------------------------------------------------------------------
(* dip::PixelTable                                                         *)

\* The sizes of a neighborhood are floating-point numbers. The model takes
\* them as multiples of 1/SizeDen, the integer n standing for n/SizeDen, and
\* computes with them as exact rationals num/den, den > 0.
SizeDen == 2

RECURSIVE Gcd(_, _)
Gcd(a, b) == IF b = 0 THEN a ELSE Gcd(b, a % b)

\* num/den in lowest terms.
Rat(num, den) ==
    LET g == Gcd(IF num < 0 THEN -num ELSE num, den)
    IN [num |-> num \div g, den |-> den \div g]

RatAdd(a, b) == Rat(a.num * b.den + b.num * a.den, a.den * b.den)

RatMul(a, b) == Rat(a.num * b.num, a.den * b.den)

RatLeq(a, b) == a.num * b.den <= b.num * a.den

\* The size n as a number.
SizeOf(n) == Rat(n, SizeDen)

\* std::max( 1.0, s )
AtLeastOne(n) == IF n < SizeDen THEN SizeDen ELSE n

\* std::floor, and the conversion of a non-negative number to dip::uint.
Floor(a) == a.num \div a.den

\* std::round: halfway cases go away from zero.
Round(a) ==
    IF a.num >= 0 THEN (2 * a.num + a.den) \div (2 * a.den)
    ELSE -((a.den - 2 * a.num) \div (2 * a.den))

\* std::round( a + 1.0e-8 ), a being far from a halfway case or on one:
\* halfway cases go up.
RoundNudged(a) == (2 * a.num + a.den) \div (2 * a.den)

\* std::floor( std::sqrt( a )), a >= 0.
FloorSqrt(a) ==
    CHOOSE l \in 0..(Floor(a) + 1) :
        l * l * a.den <= a.num /\ (l + 1) * (l + 1) * a.den > a.num

AbsOf(i) == IF i < 0 THEN -i ELSE i

\* A pixel table: runs_ is the list of runs, each the coordinates of its
\* first pixel and its length along dimension procDim_ (counted from 0).
Run(coordinates, length) == [coordinates |-> coordinates, length |-> length]

Table(sizes, origin, procDim) ==
    [err |-> "", sizes |-> sizes, origin |-> origin, runs |-> <<>>, nPixels |-> 0,
     procDim |-> procDim]

NoTable(err) ==
    [err |-> err, sizes |-> <<>>, origin |-> <<>>, runs |-> <<>>, nPixels |-> 0,
     procDim |-> 0]

\* runs_.emplace_back( coordinates, length ); nPixels_ += length;
AddRun(table, coordinates, length) ==
    [table EXCEPT !.runs = Append(@, Run(coordinates, length)), !.nPixels = @ + length]

\* origin_[ ii ] = -static_cast< dip::sint >( sizes_[ ii ] ) / 2
DefaultOrigin(sizes) == [ii \in DOMAIN sizes |-> -(sizes[ii] \div 2)]

\* PixelTable::ShiftOrigin: the origin and the runs move by -shift.
ShiftOrigin(table, shift) ==
    [table EXCEPT !.origin = [ii \in DOMAIN @ |-> @[ii] - shift[ii]],
                  !.runs = [r \in DOMAIN @ |->
                               Run([ii \in DOMAIN shift |-> @[r].coordinates[ii] - shift[ii]],
                                   @[r].length)]]

\* The walk along the Bresenham line, from the given step on: walk holds
\* the table, the coordinates and the length of the current run, and the
\* shift recorded at the origin. The position after a step is
\* start + ( step + 1 ) * total / maxSize + 1.0e-8.
RECURSIVE LineWalk(_, _, _, _, _)
LineWalk(walk, step, start, total, maxSize) ==
    IF step >= maxSize THEN walk
    ELSE LET procDim == walk.table.procDim + 1
             pos == [ii \in DOMAIN start |->
                        RoundNudged(Rat(start[ii] * maxSize + (step + 1) * total[ii], maxSize))]
             same == \A ii \in DOMAIN start : ii # procDim => pos[ii] = walk.coords[ii]
             moved == IF same
                      THEN [walk EXCEPT !.runLength = @ + 1]
                      ELSE [walk EXCEPT !.table = AddRun(@, walk.coords, walk.runLength),
                                        !.coords = pos, !.runLength = 1]
             shift == [ii \in DOMAIN start |->
                          IF ii # procDim /\ moved.coords[ii] # 0 THEN moved.coords[ii] ELSE 0]
             needShift == \E ii \in DOMAIN start : shift[ii] # 0
             marked == IF pos[procDim] = 0
                       THEN [moved EXCEPT !.shift = IF needShift THEN shift ELSE <<>>]
                       ELSE moved
         IN LineWalk(marked, step + 1, start, total, maxSize)

RECURSIVE MaxElement(_, _)
MaxElement(s, k) ==
    IF k = 1 THEN s[1]
    ELSE LET m == MaxElement(s, k - 1) IN IF s[k] > m THEN s[k] ELSE m

\* The table of shape "line".
LineTable(size, procDim) ==
    LET rounded == [ii \in DOMAIN size |-> Round(SizeOf(size[ii]))]
        total == [ii \in DOMAIN size |->
                     IF size[ii] < 0
                     THEN (IF rounded[ii] + 1 < 0 THEN rounded[ii] + 1 ELSE 0)
                     ELSE (IF rounded[ii] - 1 > 0 THEN rounded[ii] - 1 ELSE 0)]
        sizes == [ii \in DOMAIN size |-> AbsOf(total[ii]) + 1]
        origin == DefaultOrigin(sizes)
        maxSize == MaxElement(sizes, Len(sizes)) - 1
        start == [ii \in DOMAIN size |->
                     origin[ii] + (IF total[ii] < 0 THEN sizes[ii] - 1 ELSE 0)]
        walk == LineWalk([table |-> Table(sizes, origin, procDim), coords |-> start,
                          runLength |-> 1, shift |-> <<>>],
                         0, start, total, maxSize)
        walked == AddRun(walk.table, walk.coords, walk.runLength)
    IN IF maxSize >= 1
       THEN (IF walk.shift # <<>> THEN ShiftOrigin(walked, walk.shift) ELSE walked)
       ELSE AddRun(Table(sizes, origin, procDim), origin, 1)

\* The bookkeeping of the loop over the image lines: the coordinates of the
\* next line, or <<>> after the last one.
RECURSIVE NextLine(_, _, _, _, _)
NextLine(cor, origin, sizes, procDim, ii) ==
    IF ii > Len(cor) THEN <<>>
    ELSE IF ii = procDim + 1 THEN NextLine(cor, origin, sizes, procDim, ii + 1)
    ELSE IF cor[ii] + 1 >= origin[ii] + sizes[ii]
    THEN NextLine([cor EXCEPT ![ii] = origin[ii]], origin, sizes, procDim, ii + 1)
    ELSE [cor EXCEPT ![ii] = cor[ii] + 1]

\* The runs of shape "rectangular", from the line at cor on.
RECURSIVE RectangularRuns(_, _)
RectangularRuns(table, cor) ==
    LET filled == [table EXCEPT !.runs = Append(@, Run(cor, table.sizes[table.procDim + 1]))]
        next == NextLine(cor, table.origin, table.sizes, table.procDim, 1)
    IN IF next = <<>> THEN filled ELSE RectangularRuns(filled, next)

\* sizes_ of shape "rectangular".
RectangularSizes(size) == [ii \in DOMAIN size |-> Floor(SizeOf(size[ii]))]

\* sizes_ of the shapes "elliptic" and "diamond".
UnitCircleSizesEven(size) == RectangularSizes(size)

UnitCircleSizes(size) == [ii \in DOMAIN size |-> (Floor(SizeOf(size[ii])) \div 2) * 2 + 1]

RECURSIVE ProductExcept(_, _, _)
ProductExcept(s, k, skip) ==
    IF k = 0 THEN 1
    ELSE (IF k = skip THEN 1 ELSE s[k]) * ProductExcept(s, k - 1, skip)

RectangularTable(size, procDim) ==
    LET sizes == RectangularSizes(size)
        table == Table(sizes, DefaultOrigin(sizes), procDim)
        nRuns == ProductExcept(sizes, Len(sizes), procDim + 1)
    IN RectangularRuns([table EXCEPT !.nPixels = nRuns * sizes[procDim + 1]], table.origin)

\* The distance of the line at cor from the origin, normalized by the halved
\* sizes: its square in the Euclidean norm, or the distance in the L1 norm.
RECURSIVE Distance(_, _, _, _, _)
Distance(shape, cor, size, procDim, ii) ==
    IF ii = 0 THEN Rat(0, 1)
    ELSE IF ii = procDim + 1 THEN Distance(shape, cor, size, procDim, ii - 1)
    ELSE LET tmp == Rat(cor[ii] * 2 * SizeDen, size[ii])
             term == IF shape = "elliptic" THEN RatMul(tmp, tmp)
                     ELSE Rat(AbsOf(tmp.num), tmp.den)
         IN RatAdd(Distance(shape, cor, size, procDim, ii - 1), term)

\* The half length of the run on the line at cor:
\* floor( sz * sqrt( 1 - distance2 )), or floor( sz * ( 1 - distance )).
HalfLength(shape, cor, size, procDim) ==
    LET d == Distance(shape, cor, size, procDim, Len(cor))
        rest == Rat(d.den - d.num, d.den)
        sz == Rat(size[procDim + 1], 2 * SizeDen)
    IN IF shape = "elliptic" THEN FloorSqrt(RatMul(RatMul(sz, sz), rest))
       ELSE Floor(RatMul(sz, rest))

\* The runs of the shapes "elliptic" and "diamond", from the line at cor on.
RECURSIVE UnitCircleRuns(_, _, _, _)
UnitCircleRuns(shape, table, cor, size) ==
    LET length == HalfLength(shape, cor, size, table.procDim)
        within == RatLeq(Distance(shape, cor, size, table.procDim, Len(cor)), Rat(1, 1))
        filled == IF within
                  THEN AddRun(table, [cor EXCEPT ![table.procDim + 1] = -length], 2 * length + 1)
                  ELSE table
        next == NextLine(cor, table.origin, table.sizes, table.procDim, 1)
    IN IF next = <<>> THEN filled ELSE UnitCircleRuns(shape, filled, next, size)

UnitCircleTable(shape, size, procDim) ==
    LET sizes == UnitCircleSizes(size)
        table == Table(sizes, DefaultOrigin(sizes), procDim)
    IN UnitCircleRuns(shape, table, table.origin, size)

\* PixelTable( shape, size, procDim )
PixelTableOfShape(shape, size, procDim) ==
    LET atLeast == [ii \in DOMAIN size |-> AtLeastOne(size[ii])]
    IN IF Len(size) < 1 THEN NoTable("Dimensionality not supported")
       ELSE IF procDim >= Len(size) THEN NoTable("Parameter value out of range")
       ELSE IF shape = "line" THEN LineTable(size, procDim)
       ELSE IF shape = "rectangular" THEN RectangularTable(atLeast, procDim)
       ELSE IF shape \in {"elliptic", "diamond"} THEN UnitCircleTable(shape, atLeast, procDim)
       ELSE NoTable("Neighborhood shape name not recognized")

\* The offset of the sample at coords in an image with normal strides;
\* coords can be outside the image domain.
RECURSIVE OffsetOf(_, _, _)
OffsetOf(coords, sizes, ii) ==
    IF ii = 0 THEN 0
    ELSE coords[ii] * Product(sizes, ii - 1) + OffsetOf(coords, sizes, ii - 1)

\* The offsets the loop over the runs writes to, from run r on.
RECURSIVE WrittenOffsets(_, _)
WrittenOffsets(table, r) ==
    IF r > Len(table.runs) THEN {}
    ELSE LET run == table.runs[r]
             position == [ii \in DOMAIN table.origin |-> run.coordinates[ii] - table.origin[ii]]
             data == OffsetOf(position, table.sizes, Len(table.sizes))
             stride == Product(table.sizes, table.procDim)
         IN {data + ii * stride : ii \in 0..(run.length - 1)} \cup WrittenOffsets(table, r + 1)

\* PixelTable::AsImage of a table without weights: the image, and whether
\* samples were written outside of its data segment.
AsImage(table) ==
    LET written == WrittenOffsets(table, 1)
        inside == 0..(NumPx(table.sizes) - 1)
    IN [out |-> Img(table.sizes, [p \in inside |-> IF p \in written THEN 1 ELSE 0]),
        overrun |-> written \ inside # {}]

\* The loop over the samples of one image line: position is origin_ plus
\* the coordinates of the start of the line, coordinate is the place along
\* the line, length the number of set samples just before it.
RECURSIVE ScanLineOpen(_, _, _, _, _)
ScanLineOpen(table, mask, position, coordinate, length) ==
    LET procDim == table.procDim + 1
        run == [position EXCEPT ![procDim] = @ + coordinate - length]
        at == [ii \in DOMAIN position |->
                  IF ii = procDim THEN coordinate ELSE position[ii] - table.origin[ii]]
    IN IF coordinate >= mask.sizes[procDim] THEN table
       ELSE IF mask.px[OffsetOf(at, mask.sizes, Len(mask.sizes))] # 0
       THEN ScanLineOpen(table, mask, position, coordinate + 1, length + 1)
       ELSE ScanLineOpen(IF length > 0 THEN AddRun(table, run, length) ELSE table,
                         mask, position, coordinate + 1, 0)

RECURSIVE ScanLine(_, _, _, _, _)
ScanLine(table, mask, position, coordinate, length) ==
    LET procDim == table.procDim + 1
        run == [position EXCEPT ![procDim] = @ + coordinate - length]
        at == [ii \in DOMAIN position |->
                  IF ii = procDim THEN coordinate ELSE position[ii] - table.origin[ii]]
    IN IF coordinate >= mask.sizes[procDim]
       THEN (IF length > 0 THEN AddRun(table, run, length) ELSE table)
       ELSE IF mask.px[OffsetOf(at, mask.sizes, Len(mask.sizes))] # 0
       THEN ScanLine(table, mask, position, coordinate + 1, length + 1)
       ELSE ScanLine(IF length > 0 THEN AddRun(table, run, length) ELSE table,
                     mask, position, coordinate + 1, 0)

\* The loop over the image lines, from the line at coordinates it on.
RECURSIVE ScanLines(_, _, _)
ScanLines(table, mask, it) ==
    LET position == [ii \in DOMAIN it |-> table.origin[ii] + it[ii]]
        scanned == ScanLine(table, mask, position, 0, 0)
        next == NextLine(it, [ii \in DOMAIN it |-> 0], mask.sizes, table.procDim, 1)
    IN IF next = <<>> THEN scanned ELSE ScanLines(scanned, mask, next)

\* PixelTable( mask, origin, procDim ), mask being binary and scalar.
PixelTableOfImage(mask, origin, procDim) ==
    LET table == Table(mask.sizes,
                       IF origin = <<>> THEN DefaultOrigin(mask.sizes)
                       ELSE [ii \in DOMAIN origin |-> -origin[ii]],
                       procDim)
    IN IF mask = RawImg THEN NoTable("Image is not forged")
       ELSE IF procDim >= Len(mask.sizes) THEN NoTable("Parameter value out of range")
       ELSE IF origin # <<>> /\ Len(origin) # Len(mask.sizes) THEN NoTable("Array has an illegal size")
       ELSE ScanLines(table, mask, [ii \in DOMAIN mask.sizes |-> 0])

\* PixelTable pt( shape, size, procDim );
TableFromShape ==
    /\ call.fn = "PixelTable"
    /\ LET pt == PixelTableOfShape(call.shape, call.size, call.procDim)
       IN CallStep(call.fn, "start",
                   [call EXCEPT !.pc = IF pt.err = "" THEN "table" ELSE "thrown", !.pt = pt])

\* Image img = pt.AsImage(); writing outside of the data segment of img is
\* undefined: the call crashes, or goes on with the samples inside of it.
TableAsImage ==
    /\ call.fn = "PixelTable"
    /\ LET r == AsImage(call.pt)
       IN \E crash \in {r.overrun, FALSE} :
              CallStep(call.fn, "table",
                       IF crash THEN [call EXCEPT !.pc = "crashed"]
                       ELSE [call EXCEPT !.pc = "image", !.img = r.out, !.overrun = r.overrun])

\* PixelTable pt2( img, {}, procDim );
TableFromImage ==
    /\ call.fn = "PixelTable"
    /\ CallStep(call.fn, "image",
                [call EXCEPT !.pc = "done",
                             !.pt2 = PixelTableOfImage(call.img, <<>>, call.procDim)])

-----------------------------------------------------------------------------
(* dip::LookupTable                                                        *)

\* Samples, floating-point or integer, are rationals in lowest terms.
Num(n) == Rat(n, 1)

RatSub(a, b) == Rat(a.num * b.den - b.num * a.den, a.den * b.den)

\* a / b, b > 0.
RatDiv(a, b) == Rat(a.num * b.den, a.den * b.num)

RatLess(a, b) == a.num * b.den < b.num * a.den

\* The conversion of a number to an integer type: toward zero.
Truncated(a) == IF a.num >= 0 THEN a.num \div a.den ELSE -((-a.num) \div a.den)

\* The sample types of the tables, and the range of the integer ones.
SampleTypes == {"uint8", "sint8", "dfloat"}

Lowest(type) == IF type = "sint8" THEN -128 ELSE 0

Highest(type) == IF type = "sint8" THEN 127 ELSE 255

\* clamp_cast< TPI >( value ): the value in the sample type TPI, the values
\* outside of the range of TPI becoming the nearest value of TPI.
clamp_cast(type, value) ==
    IF type = "dfloat" THEN value
    ELSE IF RatLess(value, Num(Lowest(type))) THEN Num(Lowest(type))
    ELSE IF RatLess(Num(Highest(type)), value) THEN Num(Highest(type))
    ELSE Num(Truncated(value))

\* A lookup table: values_ is a 1D image, here the list of its pixels, each
\* the list of its tensor elements; index_ is empty or has a number for
\* each pixel of values_.
LUT(dataType, values, index) ==
    [dataType |-> dataType, values |-> values, index |-> index,
     outOfBoundsMode |-> "CLAMP_TO_RANGE", outOfBoundsValue |-> Num(0)]

HasIndex(lut) == lut.index # <<>>

\* FillPixel( out, length, stride, value )
FillPixel(length, value) == [t \in 1..length |-> value]

\* CopyPixel( values + index * valuesStride, out, ... )
CopyPixel(lut, index) == lut.values[index + 1]

\* CopyPixelWithInterpolation( values + index * valuesStride, out, ..., fraction, valuesStride ):
\* static_cast< TPI >( *in * ( 1 - fraction ) + *( in + interpStride ) * fraction )
CopyPixelWithInterpolation(lut, index, fraction) ==
    [t \in DOMAIN lut.values[index + 1] |->
        LET sum == RatAdd(RatMul(lut.values[index + 1][t], RatSub(Num(1), fraction)),
                          RatMul(lut.values[index + 2][t], fraction))
        IN IF lut.dataType = "dfloat" THEN sum ELSE Num(Truncated(sum))]

TensorLength(lut) == Len(lut.values[1])

\* The out-of-bounds pixel of the two filters for floating-point input.
OutOfBoundsPixel(lut, in, below) ==
    IF lut.outOfBoundsMode = "USE_OUT_OF_BOUNDS_VALUE"
    THEN FillPixel(TensorLength(lut), clamp_cast(lut.dataType, lut.outOfBoundsValue))
    ELSE IF lut.outOfBoundsMode = "KEEP_INPUT_VALUE"
    THEN FillPixel(TensorLength(lut), clamp_cast(lut.dataType, in))
    ELSE CopyPixel(lut, IF below THEN 0 ELSE Len(lut.values) - 1)

\* dip__DirectLUT_Integer::Filter, for one pixel of the uint32 buffer.
DirectLUT_IntegerUnclamped(lut, index) ==
    LET maxIndex == Len(lut.values) - 1
    IN IF index > maxIndex
       THEN (IF lut.outOfBoundsMode = "USE_OUT_OF_BOUNDS_VALUE"
             THEN FillPixel(TensorLength(lut), lut.outOfBoundsValue)
             ELSE IF lut.outOfBoundsMode = "KEEP_INPUT_VALUE"
             THEN FillPixel(TensorLength(lut), Num(index))
             ELSE CopyPixel(lut, maxIndex))
       ELSE CopyPixel(lut, index)

DirectLUT_Integer(lut, index) ==
    LET maxIndex == Len(lut.values) - 1
    IN IF index > maxIndex
       THEN (IF lut.outOfBoundsMode = "USE_OUT_OF_BOUNDS_VALUE"
             THEN FillPixel(TensorLength(lut), clamp_cast(lut.dataType, lut.outOfBoundsValue))
             ELSE IF lut.outOfBoundsMode = "KEEP_INPUT_VALUE"
             THEN FillPixel(TensorLength(lut), clamp_cast(lut.dataType, Num(index)))
             ELSE CopyPixel(lut, maxIndex))
       ELSE CopyPixel(lut, index)

\* dip__DirectLUT_Float::Filter, for one pixel of the dfloat buffer.
DirectLUT_Float(lut, in, interpolation) ==
    LET maxIndex == Len(lut.values) - 1
    IN IF RatLess(in, Num(0)) \/ RatLess(Num(maxIndex), in)
       THEN OutOfBoundsPixel(lut, in, RatLess(in, Num(0)))
       ELSE IF interpolation = "linear"
       THEN LET index == Truncated(in)
                fraction == RatSub(in, Num(index))
            IN IF fraction = Num(0) THEN CopyPixel(lut, index)
               ELSE CopyPixelWithInterpolation(lut, index, fraction)
       ELSE IF interpolation = "nearest" THEN CopyPixel(lut, Round(in))
       ELSE CopyPixel(lut, Truncated(in))

\* std::upper_bound( index_.begin(), index_.end(), in ) - index_.begin()
UpperBound(index, in) == Cardinality({k \in DOMAIN index : RatLeq(index[k], in)})

\* dip__IndexedLUT_Float::Filter, for one pixel of the dfloat buffer; the
\* places in index_ are counted from 0 as in the code.
IndexedLUT_Float(lut, in, interpolation) ==
    LET front == lut.index[1]
        back == lut.index[Len(lut.index)]
        index == UpperBound(lut.index, in) - 1
        at == lut.index[index + 1]
    IN IF RatLess(in, front) \/ RatLess(back, in)
       THEN OutOfBoundsPixel(lut, in, RatLess(in, front))
       ELSE IF interpolation = "linear"
       THEN (IF in = at THEN CopyPixel(lut, index)
             ELSE CopyPixelWithInterpolation(lut, index,
                      RatDiv(RatSub(in, at), RatSub(lut.index[index + 2], at))))
       ELSE IF interpolation = "nearest"
       THEN (IF in # at /\ RatLess(RatSub(lut.index[index + 2], in), RatSub(in, at))
             THEN CopyPixel(lut, index + 1)
             ELSE CopyPixel(lut, index))
       ELSE CopyPixel(lut, index)

\* An input image: its sample type and the list of its samples.
IsUnsigned(dataType) == dataType \in {"uint8", "uint16", "uint32"}

\* LookupTable::Apply( in, out, interpolation ) on a forged, scalar, real
\* image: the pixels of out, through the filter for the table and the type
\* of in. Scan converts the samples of in to uint32 or to dfloat, which
\* leaves their values as they are.
Apply(lut, in, interpolation) ==
    [p \in DOMAIN in.px |->
        IF HasIndex(lut) THEN IndexedLUT_Float(lut, in.px[p], interpolation)
        ELSE IF IsUnsigned(in.dataType) THEN DirectLUT_Integer(lut, in.px[p].num)
        ELSE DirectLUT_Float(lut, in.px[p], interpolation)]

\* LookupTable::SetOutOfBoundsValue( lowerValue, upperValue ), as the
\* binding calls it. The table has the one out-of-bounds value that Apply
\* hands to the filters: it is one of the two.
SetOutOfBoundsValue(lut, value) ==
    [lut EXCEPT !.outOfBoundsMode = "USE_OUT_OF_BOUNDS_VALUE", !.outOfBoundsValue = value]

\* The binding of LookupTable up to the call of Apply: the table is
\* constructed and its out-of-bounds mode is set.
LookupTableSetMode ==
    /\ call.fn = "LookupTable"
    /\ \E value \in {call.lowerValue, call.upperValue} :
           LET lookupTable == LUT(call.lut.dataType, call.lut.values, call.index)
               set == IF call.mode = "clamp"
                      THEN [lookupTable EXCEPT !.outOfBoundsMode = "CLAMP_TO_RANGE"]
                      ELSE IF call.mode = "values" THEN SetOutOfBoundsValue(lookupTable, value)
                      ELSE IF call.mode = "keep"
                      THEN [lookupTable EXCEPT !.outOfBoundsMode = "KEEP_INPUT_VALUE"]
                      ELSE lookupTable
           IN CallStep(call.fn, "start",
                       IF call.mode \in {"clamp", "values", "keep"}
                       THEN [call EXCEPT !.pc = "set", !.lookupTable = set]
                       ELSE [call EXCEPT !.pc = "thrown", !.err = "Invalid flag"])

\* return lookupTable.Apply( in, interpolation );
LookupTableApply ==
    /\ call.fn = "LookupTable"
    /\ CallStep(call.fn, "set",
                [call EXCEPT !.pc = "done",
                             !.out = Apply(call.lookupTable, call.in, call.interpolation)])

-----------------------------------------------------------------------------
(* dip::PercentileFilter                                                   *)

\* The samples of the images of this part.
MaxSample == 2

Samples == 0..MaxSample

\* The loop over the pixel table: the samples of the input line at the
\* offsets of the table from the pixel at place `at`.
Gather(in, at, offsets) == [k \in DOMAIN offsets |-> in[at + offsets[k]]]

\* static_cast< dip::sint >( static_cast< dfloat >( N ) * fraction_ ), for a
\* percentile that is a multiple of 25, whose fraction_ is exact.
Rank(N, percentile) == (N * percentile) \div 100

\* The sample std::nth_element leaves at place rank of the buffer, places
\* counted from 0, rank < N: the one a sorted buffer has there.
NthElement(buffer, rank) ==
    CHOOSE v \in Samples :
        /\ Cardinality({k \in DOMAIN buffer : buffer[k] < v}) <= rank
        /\ rank < Cardinality({k \in DOMAIN buffer : buffer[k] <= v})

\* PercentileFilter( in, out, percentile, kernel, boundaryCondition ) up to
\* the call of the line filter, in forged.
PercentileFilter ==
    /\ call.fn = "PercentileFilter"
    /\ LET err == IF call.hasWeights THEN "Kernel is not binary"
                  ELSE IF call.percentile < 0 \/ call.percentile > 100
                  THEN "Parameter value out of range"
                  ELSE ""
       IN CallStep(call.fn, "start",
                   [call EXCEPT !.pc = IF err # "" THEN "thrown"
                                       ELSE IF call.length = 0 THEN "done" ELSE "loop",
                                !.err = err])

\* PercentileLineFilter::Filter, one pixel of the line. The input line has
\* `border` samples before its first pixel. With rank = N, ourGuy is the
\* end of the buffer and *ourGuy reads past it, which is undefined: the
\* call crashes, or the pixel gets whatever sample is found there.
PercentileLineFilter ==
    /\ call.fn = "PercentileFilter"
    /\ call.pc = "loop"
    /\ LET N == Len(call.offsets)
           rank == Rank(N, call.percentile)
           buffer == Gather(call.in, call.border + call.ii + 1, call.offsets)
       IN \E crash \in {FALSE, rank >= N} :
          \E ourGuy \in IF rank < N THEN {NthElement(buffer, rank)} ELSE Samples :
              CallStep(call.fn, "loop",
                       IF crash THEN [call EXCEPT !.pc = "crashed"]
                       ELSE [call EXCEPT !.out = Append(@, ourGuy),
                                         !.ii = @ + 1,
                                         !.pc = IF call.ii + 1 < call.length THEN "loop"
                                                ELSE "done"])

-----------------------------------------------------------------------------
(* The MATLAB bindings lee and unif                                        *)

\* The outcome of a call of a mexFunction: the error, or the overload of the
\* library function that was called (its form) and, for each of its
\* parameters that was read from the right-hand side, the place in prhs it
\* was read from.
MexError(err) == [err |-> err, form |-> "none", read |-> <<>>]

MexCalled(form, read) == [err |-> "", form |-> form, read |-> read]

\* DML_MIN_ARGS( n ) and DML_MAX_ARGS( n )
DML_MIN_ARGS(nrhs, n) == IF nrhs < n THEN "Too few input arguments" ELSE ""

DML_MAX_ARGS(nrhs, n) == IF nrhs > n THEN "Too many input arguments" ELSE ""

\* The parameters read from prhs[ first ] on, as many as were given.
ReadFrom(params, first, nrhs) ==
    [k \in 1..(IF nrhs - first < Len(params) THEN nrhs - first ELSE Len(params)) |->
        <<params[k], first + k - 1>>]

\* mxIsNumeric( prhs[ 1 ] ) && ( mxGetNumberOfElements( prhs[ 1 ] ) <= in.Dimensionality() )
LooksLikeSizesStrict(arg, in) == arg.numeric /\ arg.elements < in.dims

LooksLikeSizes(arg, in) == arg.numeric /\ arg.elements <= in.dims

\* mexFunction of lee.cpp, in being prhs[ 0 ] and arg prhs[ 1 ].
lee(nrhs, in, arg) ==
    IF DML_MIN_ARGS(nrhs, 1) # "" THEN MexError(DML_MIN_ARGS(nrhs, 1))
    ELSE IF DML_MAX_ARGS(nrhs, 6) # "" THEN MexError(DML_MAX_ARGS(nrhs, 6))
    ELSE IF nrhs > 1
    THEN IF LooksLikeSizes(arg, in)
         THEN MexCalled("sizes",
                        <<<<"filterParam", 1>>>>
                        \o ReadFrom(<<"filterShape", "edgeType", "sign", "bc">>, 2, nrhs))
         ELSE IF DML_MAX_ARGS(nrhs, 5) # "" THEN MexError(DML_MAX_ARGS(nrhs, 5))
         ELSE MexCalled("image",
                        <<<<"se", 1>>>> \o ReadFrom(<<"edgeType", "sign", "bc">>, 2, nrhs))
    ELSE MexCalled("default", <<>>)

\* mexFunction of unif.cpp, in being prhs[ 0 ] and arg prhs[ 1 ].
unif(nrhs, in, arg) ==
    IF DML_MIN_ARGS(nrhs, 1) # "" THEN MexError(DML_MIN_ARGS(nrhs, 1))
    ELSE IF DML_MAX_ARGS(nrhs, 4) # "" THEN MexError(DML_MAX_ARGS(nrhs, 4))
    ELSE IF nrhs > 1
    THEN IF LooksLikeSizes(arg, in)
         THEN MexCalled("sizes",
                        <<<<"filterParam", 1>>>> \o ReadFrom(<<"filterShape", "bc">>, 2, nrhs))
         ELSE IF DML_MAX_ARGS(nrhs, 3) # "" THEN MexError(DML_MAX_ARGS(nrhs, 3))
         ELSE MexCalled("image", <<<<"neighborhood", 1>>>> \o ReadFrom(<<"bc">>, 2, nrhs))
    ELSE MexCalled("default", <<>>)

\* out = lee( in, ... )
LeeCall ==
    /\ call.fn = "lee"
    /\ CallStep(call.fn, "start",
                [call EXCEPT !.pc = "returned", !.result = lee(call.nrhs, call.in, call.arg)])

\* out = unif( in, ... )
UnifCall ==
    /\ call.fn = "unif"
    /\ CallStep(call.fn, "start",
                [call EXCEPT !.pc = "returned", !.result = unif(call.nrhs, call.in, call.arg)])

-----------------------------------------------------------------------------
(* The Python binding: type_caster< dip::Range >                           *)

\* A member of a Python slice: None, or an integer.
None == [none |-> TRUE, v |-> 0]

PyInt(v) == [none |-> FALSE, v |-> v]

\* dip::Range( start, stop, step )
Range(start, stop, step) == [start |-> start, stop |-> stop, step |-> step]

Loaded(value) == [ok |-> TRUE, value |-> value]

NotLoaded == [ok |-> FALSE, value |-> Range(0, 0, 0)]

\* type_caster< dip::Range >::load( src, bool )
loadUnswapped(src) ==
    IF src.kind = "slice"
    THEN LET step == IF src.step.none THEN 1 ELSE src.step.v
             start == IF src.start.none THEN (IF step < 0 THEN -1 ELSE 0) ELSE src.start.v
             stop == IF src.stop.none THEN -1 ELSE src.stop.v
         IN Loaded(Range(start, stop, IF step < 0 THEN -step ELSE step))
    ELSE IF src.kind = "int" THEN Loaded(Range(src.v, src.v, 1))
    ELSE NotLoaded

load(src) ==
    IF src.kind = "null" THEN NotLoaded
    ELSE IF src.kind = "slice"
    THEN LET step == IF src.step.none THEN 1 ELSE src.step.v
             start == IF src.start.none THEN (IF step < 0 THEN -1 ELSE 0) ELSE src.start.v
             stop == IF src.stop.none THEN -1 ELSE src.stop.v
         IN IF step < 0 THEN Loaded(Range(stop, start, -step))
            ELSE Loaded(Range(start, stop, step))
    ELSE IF src.kind = "int" THEN Loaded(Range(src.v, src.v, 1))
    ELSE NotLoaded

\* An argument of a function of the binding is converted to a dip::Range.
LoadRange ==
    /\ call.fn = "load"
    /\ CallStep(call.fn, "start", [call EXCEPT !.pc = "returned", !.result = load(call.src)])

-----------------------------------------------------------------------------
(* The viewer: the delegates of GLFWManager                                *)

\* The native handles; NoWindow is the null WindowPtr and the null context.
Handles == {"w1", "w2", "w3"}

NoWindow == "null"

\* The action codes of the native library for a button.
GLFW_RELEASE == 0

GLFW_PRESS == GLFW_RELEASE + 1

\* GLFWManager::getWindow: the window of the handle in windows_, or null.
getWindow(s, window) == IF window \in s.windows THEN window ELSE NoWindow

\* GLFWManager::makeCurrent
makeCurrent(s, wdw) == [s EXCEPT !.current = wdw]

\* A call of a method of the window wdw, with the context current at the call.
Called(s, wdw, method, args) ==
    [s EXCEPT !.delivered = Append(@, [window |-> wdw, method |-> method,
                                       args |-> args, current |-> s.current])]

\* A native callback arrives: nothing is delivered yet.
Dispatched(s, name, window, args) ==
    [s EXCEPT !.delivered = <<>>,
              !.event = [name |-> name, window |-> window, args |-> args]]

\* The conversion of a bool to the int parameter of a method.
BoolToInt(b) == IF b THEN 1 ELSE 0

\* GLFWManager::reshape
reshape(s, window, width, height) ==
    LET wdw == getWindow(s, window)
    IN IF wdw # NoWindow
       THEN Called(makeCurrent(s, wdw), wdw, "reshape", <<width, height>>)
       ELSE s

\* GLFWManager::iconify
iconify(s, window, iconified) ==
    LET wdw == getWindow(s, window)
    IN IF wdw # NoWindow
       THEN Called(makeCurrent(s, wdw), wdw, "visible", <<BoolToInt(iconified = 0)>>)
       ELSE s

\* GLFWManager::close
close(s, window) ==
    LET wdw == getWindow(s, window)
    IN IF wdw # NoWindow
       THEN Called(makeCurrent(s, wdw), wdw, "close", <<>>)
       ELSE s

\* GLFWManager::key; x and y are the position that getCursorPos gives.
key(s, window, k, x, y) ==
    LET wdw == getWindow(s, window)
    IN IF wdw # NoWindow
       THEN Called(makeCurrent(s, wdw), wdw, "key", <<k % 256, x, y>>)
       ELSE s

\* The button of Window::click for a native button.
ClickButton(button) == IF button = 1 THEN 2 ELSE IF button = 2 THEN 1 ELSE 0

\* The state of Window::click for a native action code.
ClickState(state) == BoolToInt(state = 0)

\* GLFWManager::click
click(s, window, button, state, x, y) ==
    LET wdw == getWindow(s, window)
    IN IF wdw # NoWindow
       THEN Called(makeCurrent(s, wdw), wdw, "click",
                   <<ClickButton(button), ClickState(state), x, y>>)
       ELSE s

\* GLFWManager::scroll
scroll(s, window, yoffset, x, y) ==
    LET wdw == getWindow(s, window)
        button == 3 + BoolToInt(yoffset < 0)
        current == makeCurrent(s, wdw)
    IN IF wdw # NoWindow
       THEN IF yoffset # 0
            THEN Called(Called(current, wdw, "click", <<button, 1, x, y>>),
                        wdw, "click", <<button, 0, x, y>>)
            ELSE current
       ELSE s

\* GLFWManager::motion
motionUnbound(s, window, x, y) ==
    LET wdw == getWindow(s, window)
    IN IF wdw # NoWindow
       THEN Called(s, wdw, "motion", <<x, y>>)
       ELSE s

motion(s, window, x, y) ==
    LET wdw == getWindow(s, window)
    IN IF wdw # NoWindow
       THEN Called(makeCurrent(s, wdw), wdw, "motion", <<x, y>>)
       ELSE s

\* The positions of the pointer, the extents of a window, the native buttons
\* and action codes, the characters and the scroll offsets of the events.
MaxCursor == 1

Cursor == 0..MaxCursor

Buttons == 0..2

States == {GLFW_RELEASE, GLFW_PRESS}

Chars == {65, 321}

YOffsets == {-1, 0, 1}

ReshapeEvent ==
    /\ call.fn = "glfw"
    /\ \E window \in Handles, width \in Cursor, height \in Cursor :
           CallStep(call.fn, "events",
               reshape(Dispatched(call, "reshape", window, <<width, height>>),
                       window, width, height))

IconifyEvent ==
    /\ call.fn = "glfw"
    /\ \E window \in Handles, iconified \in {0, 1} :
           CallStep(call.fn, "events",
               iconify(Dispatched(call, "iconify", window, <<iconified>>), window, iconified))

CloseEvent ==
    /\ call.fn = "glfw"
    /\ \E window \in Handles :
           CallStep(call.fn, "events", close(Dispatched(call, "close", window, <<>>), window))

KeyEvent ==
    /\ call.fn = "glfw"
    /\ \E window \in Handles, k \in Chars, x \in Cursor, y \in Cursor :
           CallStep(call.fn, "events",
               key(Dispatched(call, "key", window, <<k>>), window, k, x, y))

ClickEvent ==
    /\ call.fn = "glfw"
    /\ \E window \in Handles, button \in Buttons, state \in States,
          x \in Cursor, y \in Cursor :
           CallStep(call.fn, "events",
               click(Dispatched(call, "click", window, <<button, state>>),
                     window, button, state, x, y))

ScrollEvent ==
    /\ call.fn = "glfw"
    /\ \E window \in Handles, yoffset \in YOffsets, x \in Cursor, y \in Cursor :
           CallStep(call.fn, "events",
               scroll(Dispatched(call, "scroll", window, <<yoffset>>), window, yoffset, x, y))

MotionEvent ==
    /\ call.fn = "glfw"
    /\ \E window \in Handles, x \in Cursor, y \in Cursor :
           CallStep(call.fn, "events",
               motion(Dispatched(call, "motion", window, <<x, y>>), window, x, y))

-----------------------------------------------------------------------------
(* dip::FourierTransform: DFTLineFilter                                    *)

\* A line of `length` samples, by index from 0.
RECURSIVE SwapHalves(_, _, _)
SwapHalves(data, jj, ii) ==
    IF ii >= jj THEN data
    ELSE SwapHalves([data EXCEPT ![ii] = data[ii + jj], ![ii + jj] = data[ii]], jj, ii + 1)

\* The loop of fftshift for an odd length, from ii on.
RECURSIVE ShiftLoop(_, _, _)
ShiftLoop(data, jj, ii) ==
    IF ii >= jj THEN data
    ELSE LET d1 == [data EXCEPT ![ii] = data[jj + ii + 1]]
             d2 == [d1 EXCEPT ![jj + ii + 1] = d1[ii + 1]]
         IN ShiftLoop(d2, jj, ii + 1)

\* DFTLineFilter::fftshift
fftshift(data, length) ==
    LET jj == length \div 2
    IN IF length % 2 = 1
       THEN [ShiftLoop(data, jj, 0) EXCEPT ![jj] = data[0]]
       ELSE SwapHalves(data, jj, 0)

\* The loop of ifftshift for an odd length, from ii down.
RECURSIVE UnshiftLoop(_, _, _)
UnshiftLoop(data, jj, ii) ==
    IF ii = 0 THEN data
    ELSE LET d1 == [data EXCEPT ![jj + ii] = data[ii - 1]]
             d2 == [d1 EXCEPT ![ii - 1] = d1[jj + ii - 1]]
         IN UnshiftLoop(d2, jj, ii - 1)

ifftshiftForward(data, length) == fftshift(data, length)

\* DFTLineFilter::ifftshift
ifftshift(data, length) ==
    LET jj == length \div 2
    IN IF length % 2 = 1
       THEN [UnshiftLoop(data, jj, jj) EXCEPT ![jj] = data[length - 1]]
       ELSE SwapHalves(data, jj, 0)

\* DFT( in, out, ... ): element k of the output is bin k of the transform of
\* the line in; the transform itself is not computed.
DFT(in, length) == [k \in 0..(length - 1) |-> [bin |-> k, of |-> in]]

\* DFTLineFilter::Filter, up to the transform: the shift of in.
FilterShiftIn ==
    /\ call.fn = "Filter"
    /\ CallStep(call.fn, "start",
           [call EXCEPT !.pc = "shifted",
                        !.in = IF call.shift_
                               THEN (IF call.inverse_ THEN ifftshift(@, call.length)
                                     ELSE fftshift(@, call.length))
                               ELSE @])

\* DFTLineFilter::Filter: the transform.
FilterDFT ==
    /\ call.fn = "Filter"
    /\ CallStep(call.fn, "shifted",
           [call EXCEPT !.pc = "transformed", !.out = DFT(call.in, call.length)])

\* DFTLineFilter::Filter, after the transform: the shift of out.
FilterShiftOut ==
    /\ call.fn = "Filter"
    /\ CallStep(call.fn, "transformed",
           [call EXCEPT !.pc = "returned",
                        !.out = IF call.shift_
                                THEN (IF call.inverse_ THEN ifftshift(@, call.length)
                                      ELSE fftshift(@, call.length))
                                ELSE @])

\* The two shifts called on a line one after the other, at most MaxShifts
\* times; shifts holds the names of the calls made.
MaxShifts == 2

Fftshift ==
    /\ call.fn = "shift"
    /\ Len(call.shifts) < MaxShifts
    /\ CallStep(call.fn, "line",
           [call EXCEPT !.data = fftshift(@, call.length),
                        !.shifts = Append(@, "fftshift")])

Ifftshift ==
    /\ call.fn = "shift"
    /\ Len(call.shifts) < MaxShifts
    /\ CallStep(call.fn, "line",
           [call EXCEPT !.data = ifftshift(@, call.length),
                        !.shifts = Append(@, "ifftshift")])

-----------------------------------------------------------------------------
(* Specifications                                                          *)

\* Two default-constructed images, no call made.
IdleImage ==
    /\ img = [i \in Images |-> DefaultImage]
    /\ heap = [s \in SegIds |-> 0]
    /\ last = [op |-> "none", dst |-> "a", err |-> ""]

\* No saturated operator is called.
IdleSat == sat = [op |-> "none", kind |-> BinKind, a |-> W(0), b |-> W(0), r |-> W(0),
                  fault |-> FALSE]

\* The arguments of a call that was not started; out is raw. outArg tells
\* what out is when the call starts ("raw", or an image that shares the
\* segment of the "seed" or of the "mask" and is an identical view of it, or
\* "in": the very image object that EdgeObjectsRemove is given as in),
\* outSeg which segment holds the samples of out once it is reforged.
BPCall(caller, seedForged, seed, mask, conn, iterations, edge) ==
    [pc |-> "start", caller |-> caller, seedForged |-> seedForged, seed |-> seed,
     mask |-> mask, conn |-> conn, iterations |-> iterations, edge |-> edge,
     outArg |-> "raw", outSeg |-> "none",
     out |-> [p \in Offsets |-> 0], queue |-> <<>>, iDilIter |-> 0]

\* No call of BinaryPropagation.
IdleBP ==
    bp = [BPCall("none", FALSE, [p \in Offsets |-> 0], [p \in Offsets |-> 0], 1, 0, "background")
            EXCEPT !.pc = "idle"]

\* No call of another library function.
IdleCall == call = [fn |-> "none", pc |-> "idle"]

Init == IdleImage /\ IdleSat /\ IdleBP /\ IdleCall

\* A program working on the two images a and b.
Next ==
    \/ \E i \in Images, d \in SizesArgs : SetSizes(i, d)
    \/ \E i \in Images, ei \in Interfaces \cup {0} : SetExternalInterface(i, ei)
    \/ \E i \in Images, set \in BOOLEAN : Protect(i, set)
    \/ \E i \in Images : Forge(i)
    \/ \E i \in Images : Strip(i)
    \/ \E i \in Images : \E j \in Images \ {i} : CopyAssign(i, j)
    \/ \E i \in Images : \E j \in Images \ {i} : MoveAssign(i, j)

Spec == Init /\ [][Next]_vars

\* A program that sets up, forges and strips the single image a.
NextSetters ==
    \/ \E d \in SizesArgs : SetSizes("a", d)
    \/ \E s \in StridesArgs : SetStrides("a", s)
    \/ \E ts \in TensorStrideArgs : SetTensorStride("a", ts)
    \/ \E n \in TensorSizesArgs : SetTensorSizes("a", n)
    \/ \E dt \in DataTypeArgs : SetDataType("a", dt)
    \/ \E set \in BOOLEAN : Protect("a", set)
    \/ Forge("a")
    \/ Strip("a")

SpecSetters == Init /\ [][NextSetters]_vars

\* Two operands of one kind, before the call of a saturated operator.
InitSat ==
    /\ IdleImage
    /\ IdleBP
    /\ IdleCall
    /\ \E k \in Kinds : \E a \in Operands(k), b \in Operands(k) :
        sat = [op |-> "none", kind |-> k, a |-> a, b |-> b, r |-> W(0), fault |-> FALSE]

\* A program calling one saturated operator.
NextSat == SatAdd \/ SatSub \/ SatMul \/ SatDiv \/ SatInv

SpecSat == InitSat /\ [][NextSat]_vars

\* The seed images of the calls have pixels set at the first MaxSeedSites of
\* SeedSites (the centre, a corner, the middle of a side, ...), the iteration
\* counts are at most MaxIterations (0: until nothing changes).
MaxSeedSites == 3

MaxIterations == 2

SeedSites == <<4, 0, 1, 5, 6, 2, 3, 7, 8>>

Connectivities == {1, 2, -2}

Seeds == {im \in BinImages : \A p \in Offsets : im[p] # 0 => \E k \in 1..MaxSeedSites : SeedSites[k] = p}

\* The arguments of a call of BinaryPropagation with a seed image or a raw
\* seed, or of EdgeObjectsRemove, which passes a raw seed, 0 and "object", or
\* and is called with an out of its own or in place, or of BinaryPropagation
\* with an out that shares the samples of its seed or of its mask.
InitBP ==
    /\ IdleImage
    /\ IdleSat
    /\ IdleCall
    /\ \/ \E seed \in Seeds, mask \in BinImages,
             conn \in Connectivities, iterations \in 0..MaxIterations,
             edge \in {"object", "background"}, seedForged \in BOOLEAN :
               /\ ~seedForged => \A p \in Offsets : seed[p] = 0
               /\ bp = BPCall("BinaryPropagation", seedForged, seed, mask, conn, iterations, edge)
       \/ \E in \in BinImages, conn \in {c \in Connectivities : c > 0}, outArg \in {"raw", "in"} :
               bp = [BPCall("EdgeObjectsRemove", FALSE, [p \in Offsets |-> 0], in, conn, 0, "object")
                       EXCEPT !.outArg = outArg]
       \/ \E seed \in Seeds, mask \in BinImages, conn \in {c \in Connectivities : c > 0},
             outArg \in {"seed", "mask"} :
               bp = [BPCall("BinaryPropagation", TRUE, seed, mask, conn, 0, "background")
                       EXCEPT !.outArg = outArg]

NextBP == BPSetup \/ BPFirst \/ BPIterate \/ BPFinish \/ EdgeObjectsRemoveXor

SpecBP == InitBP /\ [][NextBP]_vars

\* A program that calls BinaryPropagation with iterations == 0 and a forged
\* seed, once.
InitPropagation == IdleImage /\ IdleSat /\ IdleCall /\ IdleBP

BPCalled ==
    /\ bp.pc = "idle"
    /\ \E seed \in Seeds, mask \in BinImages, conn \in Connectivities,
          edge \in {"object", "background"} :
            bp' = BPCall("BinaryPropagation", TRUE, seed, mask, conn, 0, edge)
    /\ UNCHANGED <<imgVars, sat, call>>

NextPropagation == BPCalled \/ BPSetup \/ BPFirst \/ BPIterate \/ BPFinish

\* BPIterate is enabled exactly when bp.pc = "iterate": weak fairness of it,
\* with its enabling condition written out.
FairIterate == []<>(bp.pc # "iterate") \/ []<><<BPIterate>>_vars

\* The function runs on its caller's thread with nothing to wait for: a call
\* that was started takes each of its steps and goes on until it returns.
SpecPropagation ==
    InitPropagation /\ [][NextPropagation]_vars
    /\ WF_vars(BPSetup) /\ WF_vars(BPFirst) /\ FairIterate /\ WF_vars(BPFinish)

\* The "don't care" pixels of the interval tables.
X == 2

\* The 3x3 tables of HomotopicThinningInterval2D, EndPixelInterval2D,
\* HomotopicEndPixelInterval2D, BranchPixelInterval2D, BoundaryPixelInterval2D
\* and the image of SinglePixelInterval( 2 ).
IntervalTables ==
    { <<0, 0, 0, X, 1, X, 1, 1, 1>>, <<X, 0, 0, 1, 1, 0, X, 1, X>>, <<0, 0, 0, 1, 1, 1, X, 1, X>>,
      <<X, 0, X, 0, 1, 0, X, X, X>>, <<0, 0, 0, 0, 1, 0, 0, X, X>>,
      <<X, 0, X, 0, 1, 0, X, 1, X>>, <<0, 0, 0, 0, 1, 0, X, 1, X>>,
      <<1, X, X, X, 1, 1, 1, X, X>>, <<1, X, X, X, 1, X, 1, X, 1>>,
      <<X, X, X, X, 1, 0, X, X, X>>, <<0, 0, 0, 0, 1, 0, 0, 0, 0>> }

\* Image in( data, { 3, 3 } ).
TableImage(data) == Img(<<3, 3>>, [p \in 0..8 |-> data[p + 1]])

\* The sizes of the other images intervals are constructed from.
IntervalSizes == {<<1, 1>>, <<2, 1>>, <<3, 1>>, <<1, 3>>, <<2, 2>>}

\* The images RotateBy45Degrees is called on have at most MaxSetPixels pixels
\* set, and there is the image of its test case.
MaxSetPixels == 1

RotatedSizes == {<<1, 1>>, <<3, 3>>, <<5, 5>>, <<7, 7>>}

TestImage == Img(<<7, 7>>, [p \in 0..48 |-> IF p \in {0 + 1 * 7, 2 + 1 * 7, 2 + 2 * 7, 3 + 3 * 7} THEN 1 ELSE 0])

\* Subsets of S with at most n elements.
RECURSIVE UpTo(_, _)
UpTo(S, n) == IF n = 0 THEN {{}} ELSE UpTo(S, n - 1) \cup {T \cup {x} : T \in UpTo(S, n - 1), x \in S}

RotatedImages ==
    {TestImage} \cup
    UNION {{Img(sz, [p \in 0..(NumPx(sz) - 1) |-> IF p \in set THEN 1 ELSE 0]) :
               set \in UpTo(0..(NumPx(sz) - 1), MaxSetPixels)} : sz \in RotatedSizes}

\* The interval arrays Thickening and Thinning are called with:
\* SinglePixelInterval( 2 ), BoundaryPixelInterval2D(),
\* HomotopicThinningInterval2D( 1 ) and EndPixelInterval2D( 1 ).
IntervalArrays ==
    { << IntervalOfImage(TableImage(<<0, 0, 0, 0, 1, 0, 0, 0, 0>>)) >>,
      << IntervalOfImage(TableImage(<<X, X, X, X, 1, 0, X, X, X>>)) >>,
      GenerateRotatedVersions(IntervalOfImage(TableImage(<<0, 0, 0, X, 1, X, 1, 1, 1>>)),
                              45, "interleaved clockwise"),
      GenerateRotatedVersions(IntervalOfImage(TableImage(<<X, 0, X, 0, 1, 0, X, X, X>>)),
                              90, "interleaved clockwise") }

\* The masks of these calls: none, or the middle column.
Masks == {RawImg, TableImage(<<0, 1, 0, 0, 1, 0, 0, 1, 0>>)}

\* An interval is constructed from an image or from two binary images,
\* RotateBy45Degrees is called 8 times, or Thickening or Thinning is called
\* on a 3x3 image (out is an image of its own and gets a copy of in).
InitInterval ==
    /\ IdleImage
    /\ IdleSat
    /\ IdleBP
    /\ \/ \E image \in {TableImage(d) : d \in IntervalTables}
                        \cup UNION {ImagesOf(sz, {0, 1, X}) : sz \in IntervalSizes} :
             call = [fn |-> "Interval(image)", pc |-> "start", image |-> image,
                     interval |-> Failed(""), angle |-> 0, direction |-> "", output |-> <<>>]
       \/ \E sz \in IntervalSizes, sm \in IntervalSizes :
             \E hit \in ImagesOf(sz, {0, 1}), miss \in ImagesOf(sm, {0, 1}) :
                call = [fn |-> "Interval(hit,miss)", pc |-> "start", hit |-> hit, miss |-> miss,
                        interval |-> Failed(""), angle |-> 0, direction |-> "", output |-> <<>>]
       \/ \E in \in RotatedImages :
             call = [fn |-> "RotateBy45Degrees", pc |-> "loop", in |-> in, out |-> in, ii |-> 0]
       \/ \E fn \in {"Thickening", "Thinning"}, in \in ImagesOf(<<3, 3>>, {0, 1}), mask \in Masks,
             intervals \in IntervalArrays, iterations \in 0..MaxIterations :
             call = [fn |-> fn, pc |-> "loop", in |-> in, mask |-> mask, intervals |-> intervals,
                     iterations0 |-> iterations, iterations |-> iterations,
                     out |-> in, before |-> in, passes |-> 0]

NextInterval ==
    \/ ConstructFromImage
    \/ ConstructFromHitMiss
    \/ \E a \in DOMAIN RotationSteps, d \in RotationDirections : Generate(a, d)
    \/ Rotate
    \/ ThickeningThinningPass

SpecInterval == InitInterval /\ [][NextInterval]_vars

\* The sizes of the neighborhoods are the multiples of 1/SizeDen from
\* -MaxSize/SizeDen to MaxSize/SizeDen.
MaxSize == 8

Shapes == {"rectangular", "elliptic", "diamond", "line"}

SizeArrays ==
    UNION {[1..n -> (-MaxSize)..MaxSize] : n \in 1..2}

\* A table of a shape is constructed, rendered as an image, and a second
\* table is constructed from that image.
InitPixelTable ==
    /\ IdleImage /\ IdleSat /\ IdleBP
    /\ \E shape \in Shapes, size \in SizeArrays, procDim \in 0..1 :
           call = [fn |-> "PixelTable", pc |-> "start", shape |-> shape, size |-> size,
                   procDim |-> procDim, pt |-> NoTable(""), img |-> RawImg,
                   overrun |-> FALSE, pt2 |-> NoTable("")]

NextPixelTable == TableFromShape \/ TableAsImage \/ TableFromImage

SpecPixelTable == InitPixelTable /\ [][NextPixelTable]_vars

\* The tables: the table of the test case (10 pixels of 3 tensor elements,
\* 10 to 19), and tables of the other sample types.
Ramp(first, length, tensorElements) ==
    [k \in 1..length |-> [t \in 1..tensorElements |-> Num(first + k - 1)]]

Luts ==
    {[dataType |-> "uint8", values |-> Ramp(10, 10, 3)],
     [dataType |-> "sint8", values |-> <<<<Num(-100)>>, <<Num(-5)>>, <<Num(100)>>>>],
     [dataType |-> "dfloat", values |-> <<<<Num(0), Num(1)>>, <<Num(3), Num(-1)>>>>]}

\* No index, or an index from 1 on in steps of 2.
Indices(lut) == {<<>>, [k \in 1..Len(lut.values) |-> Num(2 * k - 1)]}

\* The out-of-bounds values, inside and outside of the range of the
\* integer sample types.
OutOfBoundsValues == {Num(-200), Num(7), Num(255), Num(300)}

\* The largest sample of the input images, in halves.
MaxInput == 40

\* The input images: the ramp of the test case, and the images of a single
\* sample, unsigned integer or floating-point.
InputImages ==
    {[dataType |-> "uint16", px |-> [p \in 1..15 |-> Num(p - 1)]]}
    \cup {[dataType |-> "uint16", px |-> <<Num(v)>>] : v \in {0, 1, 2, 3, 9, 10, 200, 300}}
    \cup {[dataType |-> "dfloat", px |-> <<Rat(n, 2)>>] : n \in (-3)..MaxInput}

InitLookupTable ==
    /\ IdleImage /\ IdleSat /\ IdleBP
    /\ \E lut \in Luts, in \in InputImages,
          interpolation \in {"linear", "nearest", "zero order"},
          mode \in {"clamp", "values", "keep", "none"},
          lowerValue \in OutOfBoundsValues, upperValue \in OutOfBoundsValues :
           \E index \in Indices(lut) :
               call = [fn |-> "LookupTable", pc |-> "start", in |-> in, lut |-> lut,
                       index |-> index, interpolation |-> interpolation, mode |-> mode,
                       lowerValue |-> lowerValue, upperValue |-> upperValue,
                       lookupTable |-> LUT(lut.dataType, lut.values, index),
                       out |-> <<>>, err |-> ""]

NextLookupTable == LookupTableSetMode \/ LookupTableApply

SpecLookupTable == InitLookupTable /\ [][NextLookupTable]_vars

\* The number of pixels of a line of the calls.
LineLength == 2

\* The offsets of the pixel tables of the calls: flat 1D kernels.
PixelTables == {<<0>>, <<0, 1>>, <<-1, 0, 1>>}

\* The samples before and after the pixels of a line: as many as the
\* largest offset.
Border ==
    CHOOSE b \in 0..LineLength :
        /\ \A t \in PixelTables : \A k \in DOMAIN t : AbsOf(t[k]) <= b
        /\ \E t \in PixelTables : \E k \in DOMAIN t : AbsOf(t[k]) = b

\* 125 stands for the percentiles out of range.
Percentiles == {0, 25, 50, 75, 100, 125}

InitPercentile ==
    /\ IdleImage /\ IdleSat /\ IdleBP
    /\ \E in \in [1..(LineLength + 2 * Border) -> Samples], offsets \in PixelTables,
          percentile \in Percentiles, hasWeights \in BOOLEAN :
           call = [fn |-> "PercentileFilter", pc |-> "start", in |-> in, border |-> Border,
                   length |-> LineLength, offsets |-> offsets, percentile |-> percentile,
                   hasWeights |-> hasWeights, ii |-> 0, out |-> <<>>, err |-> ""]

NextPercentile == PercentileFilter \/ PercentileLineFilter

SpecPercentile == InitPercentile /\ [][NextPercentile]_vars

\* The calls of the bindings: up to MaxArgs arguments, an image of up to
\* MaxDims dimensions and a second argument, numeric or not, of up to
\* MaxDims + 1 elements.
MaxArgs == 8

MaxDims == 3

InitMex ==
    /\ IdleImage /\ IdleSat /\ IdleBP
    /\ \E fn \in {"lee", "unif"}, nrhs \in 0..MaxArgs, dims \in 0..MaxDims,
          numeric \in BOOLEAN, elements \in 0..(MaxDims + 1) :
           call = [fn |-> fn, pc |-> "start", nrhs |-> nrhs, in |-> [dims |-> dims],
                   arg |-> [numeric |-> numeric, elements |-> elements],
                   result |-> MexError("")]

NextMex == LeeCall \/ UnifCall

SpecMex == InitMex /\ [][NextMex]_vars

\* The members of the slices are None or integers from -MaxIndex to MaxIndex.
MaxIndex == 3

SliceMembers == {None} \cup {PyInt(v) : v \in (-MaxIndex)..MaxIndex}

\* The Python objects handed to the caster: slices, integers, an object of
\* another type, and no object.
Sources ==
    {[kind |-> "slice", start |-> start, stop |-> stop, step |-> step, v |-> 0] :
        start \in SliceMembers, stop \in SliceMembers, step \in SliceMembers}
    \cup {[kind |-> kind, start |-> None, stop |-> None, step |-> None, v |-> v] :
            kind \in {"int", "other", "null"}, v \in (-MaxIndex)..MaxIndex}

InitPy ==
    /\ IdleImage /\ IdleSat /\ IdleBP
    /\ \E src \in Sources :
           call = [fn |-> "load", pc |-> "start", src |-> src, result |-> NotLoaded]

NextPy == LoadRange

SpecPy == InitPy /\ [][NextPy]_vars

\* The manager with any table of windows and any context current.
InitViewer ==
    /\ IdleImage /\ IdleSat /\ IdleBP
    /\ \E windows \in SUBSET Handles, current \in Handles \cup {NoWindow} :
           call = [fn |-> "glfw", pc |-> "events", windows |-> windows,
                   current |-> current, delivered |-> <<>>,
                   event |-> [name |-> "none", window |-> NoWindow, args |-> <<>>]]

NextViewer ==
    \/ ReshapeEvent
    \/ IconifyEvent
    \/ CloseEvent
    \/ KeyEvent
    \/ ClickEvent
    \/ ScrollEvent
    \/ MotionEvent

SpecViewer == InitViewer /\ [][NextViewer]_vars

\* The lines have 1 to MaxLength samples, each with another value.
MaxLength == 5

Lines(length) ==
    {x \in [0..(length - 1) -> 1..length] :
        \A i \in 0..(length - 1) : \A j \in 0..(length - 1) : x[i] = x[j] => i = j}

InitDFT ==
    /\ IdleImage /\ IdleSat /\ IdleBP
    /\ \E length \in 1..MaxLength :
          \E x \in Lines(length) :
              \/ \E inverse \in BOOLEAN, corner \in BOOLEAN :
                     call = [fn |-> "Filter", pc |-> "start", length |-> length, x |-> x,
                             inverse_ |-> inverse, shift_ |-> ~corner,
                             in |-> x, out |-> DFT(x, 0)]
              \/ call = [fn |-> "shift", pc |-> "line", length |-> length, x |-> x,
                         data |-> x, shifts |-> <<>>]

NextDFT == FilterShiftIn \/ FilterDFT \/ FilterShiftOut \/ Fftshift \/ Ifftshift

SpecDFT == InitDFT /\ [][NextDFT]_vars

-----------------------------------------------------------------------------
(* Properties of dip::Image                                                *)

SetterOps == {"SetSizes", "SetStrides", "SetTensorStride", "SetTensorSizes", "SetDataType"}

\* C1: a call of SetSizes, SetStrides, SetTensorStride, SetTensorSizes or
\* SetDataType on a forged image fails with "image not raw" and changes neither
\* the image header (sizes, strides, tensor shape, sample type) nor any segment.
C1_SettersRejectForged ==
    [][(last'.op \in SetterOps /\ IsForged(img[last'.dst]))
        => (last'.err = "IMAGE_NOT_RAW" /\ img' = img /\ heap' = heap)]_vars

\* A setter was called on a forged image whose header differs from the default one.
C1_Witness ==
    /\ last.op \in SetterOps
    /\ last.err = "IMAGE_NOT_RAW"
    /\ IsForged(img[last.dst])
    /\ img[last.dst].sizes = <<2>>
    /\ img[last.dst].tensor \in TensorSizesArgs

\* C2: Strip has three outcomes. Raw image: nothing changes, protected or not.
\* Forged and unprotected: the image becomes raw, data block and origin are both
\* null. Forged and protected: the call fails and the image keeps its data block
\* and origin.
C2_StripOutcomes ==
    [][last'.op = "Strip" =>
        LET i == last'.dst
            r == img[i]
            q == img'[i]
        IN /\ ~IsForged(r) => (last'.err = "" /\ img' = img /\ heap' = heap)
           /\ (IsForged(r) /\ ~IsProtected(r)) =>
                 (last'.err = "" /\ ~IsForged(q) /\ q.dataBlock = 0 /\ q.origin = 0)
           /\ (IsForged(r) /\ IsProtected(r)) =>
                 (last'.err # "" /\ IsForged(q) /\ img' = img /\ heap' = heap)]_vars

\* Strip was refused on a protected, forged image.
C2_Witness ==
    /\ last.op = "Strip"
    /\ last.err = "Image is protected"
    /\ IsForged(img[last.dst])
    /\ IsProtected(img[last.dst])

\* C3: no operation called on a protected, forged image (Strip, or an assignment
\* onto it) takes the image away from the data segment it holds: after the call
\* the image still holds the same segment.
C3_ProtectedKeepsSegment ==
    [][(IsForged(img[last'.dst]) /\ IsProtected(img[last'.dst]))
        => img'[last'.dst].dataBlock = img[last'.dst].dataBlock]_vars

\* The other one of the two images.
Other(i) == CHOOSE j \in Images : j # i

-----------------------------------------------------------------------------
(* Properties of dip::saturated_XXX                                        *)

UInt8 == [signed |-> FALSE, bits |-> 8]

SInt16 == [signed |-> TRUE, bits |-> 16]

\* The exact sum, difference, product or quotient of the operands of the call.
Exact(c) ==
    CASE c.op = "add" -> WAdd(c.a, c.b)
      [] c.op = "sub" -> WSub(c.a, c.b)
      [] c.op = "mul" -> WMul(c.a, c.b)
      [] c.op = "div" -> WDiv(c.a, c.b)

InRange(v, k) == ~WLess(v, TypeMin(k)) /\ ~WLess(TypeMax(k), v)

\* v clamped into the range of kind k.
Clamped(v, k) ==
    IF WLess(v, TypeMin(k)) THEN TypeMin(k)
    ELSE IF WLess(TypeMax(k), v) THEN TypeMax(k)
    ELSE v

IsCall(op, k, a, b) == sat.op = op /\ sat.kind = k /\ sat.a = W(a) /\ sat.b = W(b)

\* C5: for operands of one integer kind, saturated_add, saturated_sub and
\* saturated_mul return the exact sum, difference and product clamped into the
\* kind's range, so the result is never outside that range; uint8 250+20 is
\* 255, uint8 10-20 is 0, sint16 300*1000 is 32767 and 300*(-1000) is -32768.
C5_SaturatedExactClamped ==
    /\ (sat.op \in {"add", "sub", "mul"} /\ sat.kind \in IntKinds) =>
          /\ ~sat.fault
          /\ InRange(sat.r, sat.kind)
          /\ sat.r = Clamped(Exact(sat), sat.kind)
    /\ IsCall("add", UInt8, 250, 20) => sat.r = W(255)
    /\ IsCall("sub", UInt8, 10, 20) => sat.r = W(0)
    /\ IsCall("mul", SInt16, 300, 1000) => sat.r = W(32767)
    /\ IsCall("mul", SInt16, 300, -1000) => sat.r = W(-32768)

\* An unsigned sum that does not fit its type was clamped to the maximum.
C5_Witness ==
    /\ IsCall("add", UInt8, 250, 20)
    /\ sat.r = W(255)
    /\ WLess(sat.r, Exact(sat))

\* C6: every call of a saturated operator returns a value: none faults,
\* whatever the operands, a zero divisor included.
C6_SaturatedTotal == sat.op # "none" => ~sat.fault

\* C7: saturated_div of signed operands with a non-zero divisor returns the
\* exact quotient clamped into the operands' type: lowest() / -1 gives max().
C7_SignedDivClamped ==
    (sat.op = "div" /\ sat.kind \in IntKinds /\ sat.kind.signed /\ sat.b # W(0)) =>
        (~sat.fault /\ sat.r = Clamped(Exact(sat), sat.kind))

-----------------------------------------------------------------------------
(* Properties of dip::BinaryPropagation and dip::EdgeObjectsRemove         *)

PixelsOf(im) == {p \in Offsets : im[p] # 0}

\* p and q are neighbours under connectivity c: they differ by at most one
\* step in each dimension and in at most c dimensions.
Connected(p, q, c) ==
    /\ p # q
    /\ \A k \in 1..nDims : coordsComputer[p][k] - coordsComputer[q][k] \in {-1, 0, 1}
    /\ Cardinality({k \in 1..nDims : coordsComputer[p][k] # coordsComputer[q][k]}) <= c

\* The pixels of region that a path of c-connected pixels of region joins to
\* a pixel of from.
RECURSIVE ComponentsOf(_, _, _)
ComponentsOf(from, region, c) ==
    LET start == from \cap region
        more == {q \in region \ start : \E p \in start : Connected(p, q, c)}
    IN IF more = {} THEN start ELSE ComponentsOf(start \cup more, region, c)

Returned(caller) == bp.pc = "done" /\ bp.caller = caller

\* C8: BinaryPropagation with iterations == 0, edge condition "background", a
\* single connectivity c and a seed inside the mask returns the union of the
\* c-connected components of the mask that hold a seed pixel.
C8_PropagationIsComponents ==
    (/\ Returned("BinaryPropagation")
     /\ bp.iterations = 0
     /\ bp.edge = "background"
     /\ bp.conn > 0
     /\ PixelsOf(bp.seed) \subseteq PixelsOf(bp.mask))
    => /\ \A p \in Offsets : bp.out[p] \in {0, 1}
       /\ PixelsOf(bp.out) = ComponentsOf(PixelsOf(bp.seed), PixelsOf(bp.mask), bp.conn)

\* Such a call returned: the seed grew, and a component of the mask without
\* a seed pixel stayed out.
C8_Witness ==
    /\ Returned("BinaryPropagation")
    /\ bp.iterations = 0
    /\ bp.edge = "background"
    /\ bp.conn = 1
    /\ bp.seedForged
    /\ PixelsOf(bp.seed) \subseteq PixelsOf(bp.mask)
    /\ PixelsOf(bp.seed) # PixelsOf(bp.out)
    /\ PixelsOf(bp.out) # PixelsOf(bp.mask)

\* C9: whatever the seed, the iterations, the connectivity and the edge
\* condition, the final step leaves 1 in a sample that has the mask flag and
\* the seed flag and 0 in every other sample: a true pixel of the output is a
\* pixel of the mask and no flag bit stays in the output.
C9_FinalOutput ==
    [][(bp.pc = "final" /\ bp'.pc # "final")
        => \A p \in Offsets :
              /\ bp'.out[p] \in {0, 1}
              /\ bp'.out[p] = 1 <=> (/\ (bp.out[p] \div maskBitmask) % 2 = 1
                                     /\ (bp.out[p] \div seedBitmask) % 2 = 1)
              /\ bp'.out[p] = 1 => bp.mask[p] # 0]_vars

\* A call returned true pixels, and a seed pixel outside the mask is false.
C9_Witness ==
    /\ Returned("BinaryPropagation")
    /\ PixelsOf(bp.out) # {}
    /\ \E p \in PixelsOf(bp.seed) : bp.mask[p] = 0 /\ bp.out[p] = 0
    /\ \E p \in BorderPixels : bp.out[p] = 1

\* C10: EdgeObjectsRemove with an output image of its own returns true exactly
\* at the pixels of in whose c-connected component has no pixel on the image
\* border.
C10_EdgeObjectsRemoved ==
    (Returned("EdgeObjectsRemove") /\ bp.outArg = "raw")
    => \A p \in Offsets :
          /\ bp.out[p] \in {0, 1}
          /\ bp.out[p] = 1 <=>
                (/\ bp.mask[p] # 0
                 /\ \A q \in ComponentsOf({p}, PixelsOf(bp.mask), bp.conn) :
                       \A k \in 1..nDims : coordsComputer[q][k] \notin {0, Sizes[k] - 1})

\* The centre pixel is kept and pixels on the border are removed.
C10_Witness ==
    /\ Returned("EdgeObjectsRemove") /\ bp.outArg = "raw"
    /\ PixelsOf(bp.out) # {}
    /\ PixelsOf(bp.out) # PixelsOf(bp.mask)

\* The samples read through the seed image: bp.seed holds them as they were
\* at the call, and they are the samples of out when out works in the seed's
\* segment.
SeedSamples == IF bp.outSeg = "seed" THEN bp.out ELSE bp.seed

\* C11: when out shares samples with the mask or with the seed held in
\* another image, BinaryPropagation writes its result to a fresh segment: the
\* samples read through the seed image (and through the mask image, which is
\* never written) are after the call what they were before it.
C11_AliasedOutputIsFresh ==
    (Returned("BinaryPropagation") /\ bp.outArg \in {"seed", "mask"})
    => bp.outSeg = "fresh" /\ SeedSamples = bp.seed

\* The pixels that EdgeObjectsRemove keeps: the pixels of in whose
\* c-connected component has no pixel on the image border.
InteriorObjects(in, c) ==
    {p \in PixelsOf(in) :
        \A q \in ComponentsOf({p}, PixelsOf(in), c) :
            \A k \in 1..nDims : coordsComputer[q][k] \notin {0, Sizes[k] - 1}}

\* C25: EdgeObjectsRemove called with the image in as its out returns what
\* the call with an out of its own returns: the objects on the border are
\* removed and the other objects are kept.
C25_InPlaceSameResult ==
    (Returned("EdgeObjectsRemove") /\ bp.outArg = "in")
    => PixelsOf(bp.out) = InteriorObjects(bp.mask, bp.conn)

\* The seed flag and the mask flag of the sample at offset p.
SeedFlag(o, p) == (o[p] \div seedBitmask) % 2 = 1

MaskFlag(o, p) == (o[p] \div maskBitmask) % 2 = 1

\* What an iteration over the queue (the first one or one of the loop) does:
\* no seed flag is cleared, so a flag is set at most once; the pixels left in
\* the queue are exactly the pixels whose seed flag the iteration set, each
\* of them a pixel of the mask and each queued once.
SeedsAndEnqueuesOnce ==
    bp.pc \in {"first", "iterate"}
    => /\ \A p \in Offsets : SeedFlag(bp.out, p) => SeedFlag(bp'.out, p)
       /\ \A i \in 1..Len(bp'.queue) :
              /\ MaskFlag(bp.out, bp'.queue[i]) /\ bp.mask[bp'.queue[i]] # 0
              /\ ~SeedFlag(bp.out, bp'.queue[i])
              /\ SeedFlag(bp'.out, bp'.queue[i])
              /\ \A j \in 1..Len(bp'.queue) : bp'.queue[i] = bp'.queue[j] => i = j
       /\ \A p \in Offsets :
              (SeedFlag(bp'.out, p) /\ ~SeedFlag(bp.out, p))
              => \E i \in 1..Len(bp'.queue) : bp'.queue[i] = p

\* C26: with iterations == 0 BinaryPropagation terminates; a pixel has its
\* seed flag set at most once and is enqueued at most once when it is set, so
\* there are at most as many enqueues as pixels of the mask and the call
\* returns.
C26_Terminates ==
    /\ [][SeedsAndEnqueuesOnce]_vars
    /\ (bp.pc = "start" /\ bp.iterations = 0) ~> (bp.pc = "done")

\* A call with iterations == 0 returned after several rings: the loop ran
\* three times or more.
C26_Witness ==
    /\ bp.pc = "done" /\ bp.iterations = 0
    /\ bp.iDilIter >= 3
    /\ \E p \in Offsets : bp.out[p] = 1 /\ bp.seed[p] = 0

\* The loop of BinaryPropagation from iteration iDilIter on, as one value.
RECURSIVE PropagationLoop(_, _, _, _, _)
PropagationLoop(o, q, iDilIter, conn, iterations) ==
    IF q = <<>> \/ ~(iterations = 0 \/ iDilIter < iterations) THEN o
    ELSE LET r == Iteration(o, q, 1, <<>>,
                            NeighborList[GetAbsBinaryConnectivity(conn, neighborList(iDilIter))])
         IN PropagationLoop(r.out, r.queue, iDilIter + 1, conn, iterations)

\* What BinaryPropagation returns for a forged seed and an out of its own.
PropagationOf(seed, mask, conn, iterations, edge) ==
    LET o1 == AddMaskPlane(ApplyBinaryBorderMask(seed), mask)
        q0 == FindBinaryEdgePixels(o1, FALSE, NeighborList[GetAbsBinaryConnectivity(conn, 0)],
                                   edge = "object")
        r == FirstIteration(o1, q0, 1, <<>>)
        o2 == PropagationLoop(r.out, r.queue, 1, conn, iterations)
    IN [p \in Offsets |-> FinalByte(o2[p])]

\* seed AND mask.
AndImages(a, b) == [p \in Offsets |-> IF a[p] # 0 /\ b[p] # 0 THEN 1 ELSE 0]

SeededCallReturned ==
    Returned("BinaryPropagation") /\ bp.seedForged /\ bp.outArg = "raw"

\* The steps of a call add up to PropagationOf.
PropagationOfIsTheCall ==
    SeededCallReturned
    => bp.out = PropagationOf(bp.seed, bp.mask, bp.conn, bp.iterations, bp.edge)

\* C27: a seed pixel outside the mask has no effect: BinaryPropagation
\* returns for seed and mask what it returns for seed AND mask and mask, with
\* the same connectivity, iterations and edge condition.
C27_SeedOutsideMaskIgnored ==
    SeededCallReturned
    => bp.out = PropagationOf(AndImages(bp.seed, bp.mask), bp.mask, bp.conn,
                              bp.iterations, bp.edge)

\* The connectivity of the neighbour table of the even iterations and of the
\* one of the odd iterations, for a call with connectivity conn.
EvenTable(conn) == IF conn < 0 THEN -conn ELSE conn

OddTable(conn) == IF conn < 0 THEN -conn - 1 ELSE conn

TableOfIteration(conn, k) == IF k % 2 = 0 THEN EvenTable(conn) ELSE OddTable(conn)

\* The pixels whose seed flag a step set.
NewlySeeded == {p \in Offsets : SeedFlag(bp'.out, p) /\ ~SeedFlag(bp.out, p)}

\* The pixels that are in the mask and not seeded.
Open == {p \in Offsets : MaskFlag(bp.out, p) /\ ~SeedFlag(bp.out, p)}

\* C28: iteration 0 (the expansion from the seed) and the iterations k of the
\* loop reach the open pixels that are neighbours, in the table of the
\* parity of k, of the seed (iteration 0; with the edge condition "object"
\* also the open pixels on the image border) or of the pixels of the previous
\* ring (k >= 1): the even table for even k and the odd table for odd k.
C28_TablesAlternate ==
    [][/\ bp.pc = "first"
          => NewlySeeded =
                {q \in Open :
                    \/ \E p \in Offsets :
                          SeedFlag(bp.out, p) /\ Connected(p, q, TableOfIteration(bp.conn, 0))
                    \/ q \in BorderPixels /\ bp.edge = "object"}
       /\ bp.pc = "iterate"
          => NewlySeeded =
                {q \in Open :
                    \E i \in 1..Len(bp.queue) :
                        Connected(bp.queue[i], q, TableOfIteration(bp.conn, bp.iDilIter))}]_vars

\* A call with alternating connectivity returned after an odd and an even
\* iteration of the loop, and the two tables gave another result than the
\* even table alone and than the odd table alone.
C28_Witness ==
    /\ SeededCallReturned
    /\ bp.conn < 0
    /\ bp.iDilIter >= 3
    /\ bp.out # PropagationOf(bp.seed, bp.mask, EvenTable(bp.conn), bp.iterations, bp.edge)
    /\ bp.out # PropagationOf(bp.seed, bp.mask, OddTable(bp.conn), bp.iterations, bp.edge)

-----------------------------------------------------------------------------
(* Properties of dip::Interval                                             *)

Constructed(fn) == call.fn = fn /\ call.pc \in {"built", "rotated"}

SetPixels(image) == {p \in DOMAIN image.px : image.px[p] = 1}

\* C12: the construction of an Interval fails if a size is even, if hit has
\* no foreground pixel or, from two images, if hit and miss share a foreground
\* pixel; an interval that is constructed has odd sizes, a hit that is not
\* empty and a miss that shares no pixel with it.
C12_IntervalConstruction ==
    /\ Constructed("Interval(image)") =>
          /\ (\/ \E k \in 1..Len(call.image.sizes) : call.image.sizes[k] % 2 = 0
              \/ SetPixels(call.image) = {}) => call.interval.err # ""
    /\ Constructed("Interval(hit,miss)") =>
          /\ (\/ \E k \in 1..Len(call.hit.sizes) : call.hit.sizes[k] % 2 = 0
              \/ SetPixels(call.hit) = {}
              \/ call.hit.sizes = call.miss.sizes
                   /\ SetPixels(call.hit) \cap SetPixels(call.miss) # {}) => call.interval.err # ""
    /\ (call.fn \in {"Interval(image)", "Interval(hit,miss)"}
           /\ call.pc \in {"built", "rotated"} /\ call.interval.err = "")
       => /\ \A k \in 1..Len(call.interval.hit.sizes) : call.interval.hit.sizes[k] % 2 = 1
          /\ SetPixels(call.interval.hit) # {}
          /\ \/ call.interval.miss = RawImg
             \/ /\ call.interval.miss.sizes = call.interval.hit.sizes
                /\ SetPixels(call.interval.hit) \cap SetPixels(call.interval.miss) = {}

\* An interval was constructed from a hit and a miss image that has pixels.
C12_Witness ==
    /\ Constructed("Interval(hit,miss)")
    /\ call.interval.err = ""
    /\ SetPixels(call.interval.miss) # {}
    /\ Len(call.interval.hit.sizes) = 2

\* C13: RotateBy45Degrees applied 8 times to a square binary image with an
\* odd side gives the image back.
C13_EightRotationsIdentity ==
    (call.fn = "RotateBy45Degrees" /\ call.ii = 8) => call.out = call.in

\* The 7x7 image of the test case went through the 8 rotations.
C13_Witness ==
    /\ call.fn = "RotateBy45Degrees"
    /\ call.ii = 8
    /\ call.in = TestImage

\* An image turned by 180 degrees: its samples in the reverse order.
HalfTurn(image) ==
    IF image = RawImg THEN image
    ELSE Img(image.sizes, [p \in DOMAIN image.px |-> image.px[NumPx(image.sizes) - 1 - p]])

\* An image turned clockwise by 90 degrees: the sample at (x, y) is the one
\* that was at (y, height - 1 - x).
QuarterTurn(image) ==
    IF image = RawImg THEN image
    ELSE LET w == image.sizes[1]
             h == image.sizes[2]
         IN Img(<<h, w>>, [p \in DOMAIN image.px |->
                              LET x == p % h
                                  y == p \div h
                              IN image.px[y + (h - 1 - x) * w]])

RECURSIVE TurnedBy(_, _)
TurnedBy(image, angle) ==
    IF image = RawImg THEN image
    ELSE IF angle >= 90 THEN QuarterTurn(TurnedBy(image, angle - 90))
    ELSE IF angle = 45 THEN RotateBy45Degrees(image)
    ELSE image

InterleavedAngles == [a \in {45, 90} |-> IF a = 45 THEN <<0, 180, 45, 225, 90, 270, 135, 315>>
                                         ELSE <<0, 180, 90, 270>>]

\* C14: with an interleaved direction and a step of 45 or 90 degrees the
\* rotated versions are at angles 0, 180, 45, 225, 90, 270, 135, 315 (step
\* 45) or 0, 180, 90, 270 (step 90) in the chosen direction, so the elements
\* 2k and 2k+1 are each other's rotation by 180 degrees.
C14_InterleavedOrder ==
    (/\ call.fn \in {"Interval(image)", "Interval(hit,miss)"}
     /\ call.pc = "rotated"
     /\ call.angle \in {45, 90}
     /\ call.direction \in {"interleaved clockwise", "interleaved counter-clockwise"})
    => LET angles == InterleavedAngles[call.angle]
           cw(a) == IF call.direction = "interleaved clockwise" THEN a ELSE (360 - a) % 360
       IN /\ Len(call.output) = Len(angles)
          /\ \A k \in 1..Len(angles) :
                /\ call.output[k].hit = TurnedBy(call.interval.hit, cw(angles[k]))
                /\ call.output[k].miss = TurnedBy(call.interval.miss, cw(angles[k]))
          /\ \A k \in 1..(Len(angles) \div 2) :
                /\ call.output[2 * k].hit = HalfTurn(call.output[2 * k - 1].hit)
                /\ call.output[2 * k].miss = HalfTurn(call.output[2 * k - 1].miss)

\* The eight versions of a table that no rotation maps to itself.
C14_Witness ==
    /\ call.fn = "Interval(image)"
    /\ call.pc = "rotated"
    /\ call.angle = 45
    /\ call.direction = "interleaved counter-clockwise"
    /\ call.image.sizes = <<3, 3>>
    /\ HatMissSamples(call.interval)
    /\ \A j, k \in 1..8 : j # k => call.output[j] # call.output[k]

\* C15: with iterations == 0 Thickening and Thinning stop after the first
\* pass over the intervals that left the image as it was, and not before: a
\* call that stopped made a last pass that changed nothing, and a call that
\* goes on made a last pass that changed the image.
C15_StopsWhenUnchanged ==
    (call.fn \in {"Thickening", "Thinning"} /\ call.iterations0 = 0 /\ call.passes > 0)
    => /\ call.pc = "done" => call.out = call.before
       /\ call.pc = "loop" => call.out # call.before

-----------------------------------------------------------------------------
(* Properties of dip::PixelTable                                           *)

SameTable(a, b) ==
    /\ a.sizes = b.sizes
    /\ a.origin = b.origin
    /\ a.nPixels = b.nPixels
    /\ a.runs = b.runs

RoundTripped(shapes) == call.fn = "PixelTable" /\ call.pc = "done" /\ call.shape \in shapes

\* C16 as stated: a table of any of the four shapes, rendered with AsImage
\* and constructed again from that image with the default origin and the
\* same processing dimension, has the same sizes, origin, number of pixels
\* and list of runs. It is stated of the calls in which AsImage wrote
\* inside of the image only.
C16_RoundTripAnyShape ==
    (RoundTripped(Shapes) /\ ~call.overrun) => SameTable(call.pt2, call.pt)

\* C16, amended: a table of the shapes rectangular, elliptic or diamond,
\* rendered with AsImage and constructed again from that image with the
\* default origin and the same processing dimension, has the same sizes,
\* origin, number of pixels and list of runs.
C16_RoundTrip ==
    RoundTripped({"rectangular", "elliptic", "diamond"}) => SameTable(call.pt2, call.pt)

C16_Witness ==
    /\ RoundTripped({"elliptic"})
    /\ Len(call.pt2.runs) >= 3
    /\ \E r, s \in DOMAIN call.pt2.runs : call.pt2.runs[r].length > call.pt2.runs[s].length

TableOf(shapes) ==
    call.fn = "PixelTable" /\ call.pc = "table" /\ call.shape \in shapes

Odd(n) == n % 2 = 1

\* floor( size ) of the size n/SizeDen.
FloorOfSize(n) == n \div SizeDen

\* C17 as stated: the extent of a table of the shapes rectangular, elliptic
\* or diamond is, in every dimension, odd and (floor(size)/2)*2+1. It is
\* stated of the requested sizes of at least one pixel.
C17_OddExtents ==
    (/\ TableOf({"rectangular", "elliptic", "diamond"})
     /\ \A ii \in DOMAIN call.size : call.size[ii] >= SizeDen)
    => \A ii \in DOMAIN call.size :
           /\ Odd(call.pt.sizes[ii])
           /\ call.pt.sizes[ii] = (FloorOfSize(call.size[ii]) \div 2) * 2 + 1

\* C17, amended: with s the larger of the requested size and 1, the extent
\* of a table of the shapes elliptic or diamond is, in every dimension, odd
\* and (floor(s)/2)*2+1, and the extent of a table of shape rectangular is
\* floor(s).
C17_Extents ==
    /\ TableOf({"elliptic", "diamond"})
       => \A ii \in DOMAIN call.size :
              /\ Odd(call.pt.sizes[ii])
              /\ call.pt.sizes[ii] = (FloorOfSize(AtLeastOne(call.size[ii])) \div 2) * 2 + 1
    /\ TableOf({"rectangular"})
       => \A ii \in DOMAIN call.size :
              call.pt.sizes[ii] = FloorOfSize(AtLeastOne(call.size[ii]))

C17_Witness ==
    /\ TableOf({"diamond"})
    /\ \E ii \in DOMAIN call.size :
           call.size[ii] = 4 * SizeDen /\ call.pt.sizes[ii] = 5

-----------------------------------------------------------------------------
(* Properties of dip::LookupTable                                          *)

Applied == call.fn = "LookupTable" /\ call.pc = "done"

\* The calls of the filter for unsigned integer input: no index, and an
\* unsigned integer image. The out-of-bounds value is the one value given.
DirectInteger ==
    /\ Applied
    /\ call.index = <<>>
    /\ call.in.dataType = "uint16"
    /\ call.lowerValue = call.upperValue

\* A number brought into the range of a sample type.
Saturated(type, value) ==
    IF type = "dfloat" THEN value
    ELSE IF value.num < Lowest(type) * value.den THEN Num(Lowest(type))
    ELSE IF value.num > Highest(type) * value.den THEN Num(Highest(type))
    ELSE value

\* What the claim says of the sample v, for a given out-of-bounds pixel.
DirectIntegerPixel(v, outOfBounds) ==
    LET length == Len(call.lut.values)
        elements == DOMAIN call.lut.values[1]
    IN IF v <= length - 1 THEN call.lut.values[v + 1]
       ELSE IF call.mode = "clamp" THEN call.lut.values[length]
       ELSE IF call.mode = "values" THEN [t \in elements |-> outOfBounds]
       ELSE [t \in elements |-> Saturated(call.lut.dataType, Num(v))]

\* C18 as stated: without index and on an unsigned integer image, a sample
\* v of at most the table length - 1 gives entry v of the table in every
\* tensor element, and a larger one gives the last entry (clamp), the
\* configured value (values), or v saturated to the sample type of the
\* table (keep).
C18_DirectIntegerLookup ==
    DirectInteger
    => \A p \in DOMAIN call.in.px :
           call.out[p] = DirectIntegerPixel(call.in.px[p].num, call.upperValue)

\* C18, amended: as stated, but under the policy values a larger sample
\* gives the configured value saturated to the sample type of the table.
C18_DirectIntegerLookupSaturated ==
    DirectInteger
    => \A p \in DOMAIN call.in.px :
           call.out[p] = DirectIntegerPixel(call.in.px[p].num,
                                            Saturated(call.lut.dataType, call.upperValue))

\* The example of the claim: the table 10..19 with out-of-bounds value 255
\* has mapped the ramp 0..14 to 10..19 and five times 255.
C18_Witness ==
    /\ DirectInteger
    /\ call.mode = "values" /\ call.upperValue = Num(255)
    /\ call.lut.values = Ramp(10, 10, 3)
    /\ Len(call.in.px) = 15
    /\ \A p \in 1..15 :
           call.out[p] = [t \in 1..3 |-> Num(IF p <= 10 THEN p + 9 ELSE 255)]

\* The position of a sample of the input, with or without index, is below
\* or above the range of the table.
Below(in) ==
    RatLess(in, IF call.index = <<>> THEN Num(0) ELSE call.index[1])

Above(in) ==
    RatLess(IF call.index = <<>> THEN Num(Len(call.lut.values) - 1)
            ELSE call.index[Len(call.index)], in)

\* C19: under the policy values a position below the range gives the
\* configured below-range value (lowerValue of the binding) and a position
\* above the range gives the configured above-range value (upperValue), in
\* the sample type of the table.
C19_LowerAndUpperValue ==
    (Applied /\ call.mode = "values")
    => \A p \in DOMAIN call.in.px :
           LET elements == DOMAIN call.lut.values[1]
               type == call.lut.dataType
           IN /\ Below(call.in.px[p])
                 => call.out[p] = [t \in elements |-> Saturated(type, call.lowerValue)]
              /\ Above(call.in.px[p])
                 => call.out[p] = [t \in elements |-> Saturated(type, call.upperValue)]

-----------------------------------------------------------------------------
(* Properties of dip::PercentileFilter                                     *)

\* The largest of the samples of a buffer.
Maximum(buffer) ==
    CHOOSE v \in Samples :
        /\ \E k \in DOMAIN buffer : buffer[k] = v
        /\ \A k \in DOMAIN buffer : buffer[k] <= v

\* C20: with percentile = 100 and an unweighted kernel of N pixels, every
\* output pixel is the maximum of the N samples of its neighbourhood, as
\* after a dilation with the flat structuring element.
C20_Percentile100IsMaximum ==
    (call.fn = "PercentileFilter" /\ call.pc = "done" /\ call.percentile = 100)
    => \A ii \in DOMAIN call.out :
           call.out[ii] = Maximum(Gather(call.in, call.border + ii, call.offsets))

-----------------------------------------------------------------------------
(* Properties of the MATLAB bindings                                       *)

MexReturned == call.fn \in {"lee", "unif"} /\ call.pc = "returned"

\* The largest number of arguments of the form with a filter size, and of
\* the form with an image.
MostArgs(fn, form) ==
    IF fn = "lee" THEN (IF form = "sizes" THEN 6 ELSE 5)
    ELSE (IF form = "sizes" THEN 4 ELSE 3)

SizesVector(arg, dims) == arg.numeric /\ arg.elements <= dims

\* C21: of a call of lee or unif with a second argument, the second
\* argument is read as a filter size if and only if it is numeric and has
\* no more elements than the image has dimensions, and as an image
\* otherwise; with a filter size up to 6 (lee) or 4 (unif) arguments are
\* accepted, with an image more than 5 (lee) or 3 (unif) are rejected.
C21_SizesOrImage ==
    (MexReturned /\ call.nrhs >= 2)
    => LET sizes == SizesVector(call.arg, call.in.dims)
           r == call.result
       IN /\ sizes /\ call.nrhs <= MostArgs(call.fn, "sizes")
             => r.err = "" /\ r.form = "sizes" /\ r.read[1] = <<"filterParam", 1>>
          /\ ~sizes /\ call.nrhs <= MostArgs(call.fn, "image")
             => r.err = "" /\ r.form = "image" /\ r.read[1][2] = 1
                /\ r.read[1][1] \in {"se", "neighborhood"}
          /\ ~sizes /\ call.nrhs > MostArgs(call.fn, "image") => r.err # ""
          /\ r.form = "sizes" => sizes
          /\ r.form = "image" => ~sizes

C21_Witness ==
    /\ MexReturned
    /\ call.fn = "lee" /\ call.nrhs = 6
    /\ call.arg.numeric /\ call.arg.elements = call.in.dims
    /\ call.result.form = "sizes" /\ Len(call.result.read) = 5

-----------------------------------------------------------------------------
(* Properties of the Python binding                                        *)

\* A slice was converted; its step, where given, is not zero (a range has no
\* step of zero).
SliceLoaded ==
    /\ call.fn = "load" /\ call.pc = "returned" /\ call.src.kind = "slice"
    /\ call.src.step.none \/ call.src.step.v # 0

\* The index that a member of a range stands for in a dimension of the given
\* size: negative ones count from the end, -1 being the last index.
IndexOf(v, size) == IF v < 0 THEN size + v ELSE v

\* The range the claim gives for the slice src in a dimension of the given
\* size, the omitted stop standing for the index omittedStop.
RangeOfSlice(src, size, omittedStop) ==
    LET step == IF src.step.none THEN 1 ELSE src.step.v
        start == IF src.start.none THEN (IF step > 0 THEN 0 ELSE size - 1)
                 ELSE IndexOf(src.start.v, size)
        stop == IF src.stop.none THEN omittedStop ELSE IndexOf(src.stop.v, size)
    IN IF step < 0 THEN Range(stop, start, -step) ELSE Range(start, stop, step)

IndicesOf(range, size) ==
    Range(IndexOf(range.start, size), IndexOf(range.stop, size), range.step)

\* C22 as stated: the range of a slice has step 1 for an omitted step,
\* start 0 (step positive) or the last index (otherwise) for an omitted
\* start, one past the last index for an omitted stop, and start and stop
\* swapped and the sign of the step flipped for a negative step.
C22_SliceToRange ==
    SliceLoaded
    => /\ call.result.ok
       /\ \A size \in (MaxIndex + 1)..(MaxIndex + 2) :
              IndicesOf(call.result.value, size) = RangeOfSlice(call.src, size, size)

\* C22, amended: as stated, but an omitted stop gives the last index.
C22_SliceToRangeLastIndex ==
    SliceLoaded
    => /\ call.result.ok
       /\ \A size \in (MaxIndex + 1)..(MaxIndex + 2) :
              IndicesOf(call.result.value, size) = RangeOfSlice(call.src, size, size - 1)

C22_Witness ==
    /\ SliceLoaded
    /\ call.src.stop.none /\ ~call.src.start.none /\ ~call.src.step.none
    /\ call.src.step.v < -1 /\ call.src.start.v > 0
    /\ call.result.value = Range(-1, call.src.start.v, -call.src.step.v)

-----------------------------------------------------------------------------
(* Properties of the viewer                                                *)

\* The calls of Window::click that the last native callback delivered.
Clicks == SelectSeq(call.delivered, LAMBDA c : c.method = "click")

Scrolled ==
    /\ call.fn = "glfw" /\ call.event.name = "scroll"
    /\ call.event.window \in call.windows

\* C23: a scroll with a vertical offset other than zero delivers exactly two
\* clicks of one button, 3 or 4 by the direction, the first with the state
\* the button delegate gives a press and the second with the state it gives a
\* release; a scroll with a vertical offset of zero delivers no click.
C23_ScrollPressRelease ==
    Scrolled =>
        IF call.event.args[1] # 0
        THEN /\ Len(Clicks) = 2
             /\ Clicks[1].args[1] = Clicks[2].args[1]
             /\ Clicks[1].args[1] = IF call.event.args[1] < 0 THEN 4 ELSE 3
             /\ Clicks[1].args[2] = ClickState(GLFW_PRESS)
             /\ Clicks[2].args[2] = ClickState(GLFW_RELEASE)
        ELSE Len(Clicks) = 0

\* C24: after a native callback for a handle of the table, every method of
\* a window that was called is one of the window of the handle and was
\* called with its context current; for a handle not in the table no
\* method of a window was called.
C24_CurrentBeforeCall ==
    (call.fn = "glfw" /\ call.event.name # "none") =>
        IF call.event.window \in call.windows
        THEN \A i \in 1..Len(call.delivered) :
                 /\ call.delivered[i].window = call.event.window
                 /\ call.delivered[i].current = call.event.window
        ELSE call.delivered = <<>>

C24_Witness ==
    /\ call.fn = "glfw" /\ call.event.name = "motion"
    /\ call.event.window \in call.windows
    /\ Len(call.delivered) = 1
    /\ call.delivered[1].current = call.event.window

-----------------------------------------------------------------------------
(* Properties of DFTLineFilter                                             *)

\* A forward transform with the origin in the middle of the line.
ForwardShifted(pc) ==
    /\ call.fn = "Filter" /\ call.pc = pc
    /\ ~call.inverse_ /\ call.shift_

\* C29: without "corner", for a line of any length n the shift before the
\* forward transform moves the sample at index floor(n/2) to index 0, and
\* the shift after the transform moves the sample at index 0 (bin 0) to
\* index floor(n/2).
C29_OriginToCorner ==
    /\ ForwardShifted("shifted") => call.in[0] = call.x[call.length \div 2]
    /\ ForwardShifted("returned") => call.out[call.length \div 2].bin = 0

Shifted(shifts) == call.fn = "shift" /\ call.shifts = shifts

IsPermutation(data, x, length) ==
    \A i \in 0..(length - 1) :
        Cardinality({k \in 0..(length - 1) : data[k] = x[i]}) = 1

\* C30: for a line of any length n >= 1, fftshift and ifftshift permute the
\* samples of the line, each undoes the other, and for an even n the two do
\* the same.
C30_ShiftsAreInverse ==
    /\ (Shifted(<<"fftshift">>) \/ Shifted(<<"ifftshift">>))
       => IsPermutation(call.data, call.x, call.length)
    /\ Shifted(<<"fftshift", "ifftshift">>) => call.data = call.x
    /\ Shifted(<<"ifftshift", "fftshift">>) => call.data = call.x
    /\ (Shifted(<<"fftshift">>) /\ call.length % 2 = 0)
       => call.data = ifftshift(call.x, call.length)

\* A line of odd length, which fftshift changed, is back after ifftshift.
C30_Witness ==
    /\ Shifted(<<"fftshift", "ifftshift">>)
    /\ call.length % 2 = 1 /\ call.length >= 3
    /\ fftshift(call.x, call.length) # call.x
    /\ fftshift(call.x, call.length) # ifftshift(call.x, call.length)
    /\ call.data = call.x

====
